---- MODULE Spec2Model ----
(***************************************************************************)
(* Configuration resolution, validation, request pipeline and lifecycle of *)
(* the task-management HTTP service (environment-config.js,                *)
(* security-config.js, server.js, production-server.js,                    *)
(* production-config.js, api/index.js).                                    *)
(*                                                                         *)
(* JavaScript strings are sequences of one-character strings, so that      *)
(* length, includes, split and trim are computed and not assumed.          *)
(***************************************************************************)
EXTENDS Integers, Sequences, FiniteSets, TLC

(***************************************************************************)
(* JavaScript values.  Every value is a record of the same shape; t is the *)
(* type tag ("undefined", "null", "NaN", "boolean", "number", "string",    *)
(* "array", "object").  An object's properties are the function m.         *)
(***************************************************************************)
Undefined == [t |-> "undefined", b |-> FALSE, n |-> 0, s |-> <<>>, l |-> <<>>, m |-> <<>>]

Null == [t |-> "null", b |-> FALSE, n |-> 0, s |-> <<>>, l |-> <<>>, m |-> <<>>]

NaN == [t |-> "NaN", b |-> FALSE, n |-> 0, s |-> <<>>, l |-> <<>>, m |-> <<>>]

Bool(x) == [t |-> "boolean", b |-> x, n |-> 0, s |-> <<>>, l |-> <<>>, m |-> <<>>]

Num(x) == [t |-> "number", b |-> FALSE, n |-> x, s |-> <<>>, l |-> <<>>, m |-> <<>>]

Str(x) == [t |-> "string", b |-> FALSE, n |-> 0, s |-> x, l |-> <<>>, m |-> <<>>]

Arr(x) == [t |-> "array", b |-> FALSE, n |-> 0, s |-> <<>>, l |-> x, m |-> <<>>]

Obj(x) == [t |-> "object", b |-> FALSE, n |-> 0, s |-> <<>>, l |-> <<>>, m |-> x]

\* A function value; s holds its name
Fn(x) == [t |-> "function", b |-> FALSE, n |-> 0, s |-> <<x>>, l |-> <<>>, m |-> <<>>]

\* An Error object; l holds the lines of its message
Err(x) == [t |-> "error", b |-> FALSE, n |-> 0, s |-> <<>>, l |-> x, m |-> <<>>]

EmptyObj == Obj(<<>>)

\* JavaScript truthiness (the operand of !, && and ||).
Truthy(v) ==
  CASE v.t = "undefined" -> FALSE
    [] v.t = "null" -> FALSE
    [] v.t = "NaN" -> FALSE
    [] v.t = "boolean" -> v.b
    [] v.t = "number" -> v.n # 0
    [] v.t = "string" -> v.s # <<>>
    [] OTHER -> TRUE

\* a || b
Or(a, b) == IF Truthy(a) THEN a ELSE b

\* obj?.[key]
Prop(obj, key) == IF obj.t = "object" /\ key \in DOMAIN obj.m THEN obj.m[key] ELSE Undefined

\* obj[key] = value
SetProp(obj, key, value) ==
  Obj([k \in (DOMAIN obj.m) \cup {key} |-> IF k = key THEN value ELSE obj.m[k]])

\* delete obj[key]
DeleteProp(obj, key) == Obj([k \in (DOMAIN obj.m) \ {key} |-> obj.m[k]])

(***************************************************************************)
(* String literals of the sources.                                         *)
(***************************************************************************)
str_development == <<"d", "e", "v", "e", "l", "o", "p", "m", "e", "n", "t">>
str_test == <<"t", "e", "s", "t">>
str_staging == <<"s", "t", "a", "g", "i", "n", "g">>
str_production == <<"p", "r", "o", "d", "u", "c", "t", "i", "o", "n">>
str_preview == <<"p", "r", "e", "v", "i", "e", "w">>
str_vercel_error == <<"v", "e", "r", "c", "e", "l", "-", "e", "r", "r", "o", "r">>
str_dev_session == <<"d", "e", "v", "-", "s", "e", "s", "s", "i", "o", "n", "-", "s", "e", "c", "r", "e", "t", "-", "c", "h", "a", "n", "g", "e", "-", "i", "n", "-", "p", "r", "o", "d", "u", "c", "t", "i", "o", "n">>
str_dev_jwt == <<"d", "e", "v", "-", "j", "w", "t", "-", "s", "e", "c", "r", "e", "t", "-", "c", "h", "a", "n", "g", "e", "-", "i", "n", "-", "p", "r", "o", "d", "u", "c", "t", "i", "o", "n">>
str_test_session == <<"t", "e", "s", "t", "-", "s", "e", "s", "s", "i", "o", "n", "-", "s", "e", "c", "r", "e", "t">>
str_test_jwt == <<"t", "e", "s", "t", "-", "j", "w", "t", "-", "s", "e", "c", "r", "e", "t">>
str_not_set == <<"n", "o", "t", "-", "s", "e", "t">>
str_dev_dash == <<"d", "e", "v", "-">>
str_memory == <<"m", "e", "m", "o", "r", "y">>
str_postgresql == <<"p", "o", "s", "t", "g", "r", "e", "s", "q", "l">>
str_localhost3000 == <<"h", "t", "t", "p", ":", "/", "/", "l", "o", "c", "a", "l", "h", "o", "s", "t", ":", "3", "0", "0", "0">>
str_localhost8080 == <<"h", "t", "t", "p", ":", "/", "/", "l", "o", "c", "a", "l", "h", "o", "s", "t", ":", "8", "0", "8", "0">>
str_loopback3000 == <<"h", "t", "t", "p", ":", "/", "/", "1", "2", "7", ".", "0", ".", "0", ".", "1", ":", "3", "0", "0", "0">>
str_localhost == <<"h", "t", "t", "p", ":", "/", "/", "l", "o", "c", "a", "l", "h", "o", "s", "t">>
str_staging_origin == <<"h", "t", "t", "p", "s", ":", "/", "/", "s", "t", "a", "g", "i", "n", "g", ".", "t", "a", "s", "k", "m", "a", "n", "a", "g", "e", "r", ".", "c", "o", "m">>
str_prod_origin == <<"h", "t", "t", "p", "s", ":", "/", "/", "t", "a", "s", "k", "m", "a", "n", "a", "g", "e", "r", ".", "c", "o", "m">>
str_ok_origin == <<"h", "t", "t", "p", "s", ":", "/", "/", "o", "k", ".", "e", "x", "a", "m", "p", "l", "e">>
str_evil_origin == <<"h", "t", "t", "p", "s", ":", "/", "/", "e", "v", "i", "l", ".", "e", "x", "a", "m", "p", "l", "e">>
str_combined == <<"c", "o", "m", "b", "i", "n", "e", "d">>
str_dev == <<"d", "e", "v">>
str_health == <<"/", "h", "e", "a", "l", "t", "h">>
str_metrics == <<"/", "m", "e", "t", "r", "i", "c", "s">>
str_ready == <<"/", "r", "e", "a", "d", "y">>
str_api_tasks == <<"/", "a", "p", "i", "/", "t", "a", "s", "k", "s">>
str_api_v1_tasks == <<"/", "a", "p", "i", "/", "v", "1", "/", "t", "a", "s", "k", "s">>
str_api == <<"/", "a", "p", "i">>
str_login == <<"/", "a", "p", "i", "/", "a", "u", "t", "h", "/", "l", "o", "g", "i", "n">>

\* String.prototype.includes
Includes(s, sub) ==
  \E i \in 0..(Len(s) - Len(sub)) : SubSeq(s, i + 1, i + Len(sub)) = sub

\* String.prototype.trim (blanks only)
RECURSIVE TrimLeft(_)
TrimLeft(s) == IF s # <<>> /\ Head(s) = " " THEN TrimLeft(Tail(s)) ELSE s

RECURSIVE TrimRight(_)
TrimRight(s) ==
  IF s # <<>> /\ s[Len(s)] = " " THEN TrimRight(SubSeq(s, 1, Len(s) - 1)) ELSE s

Trim(s) == TrimRight(TrimLeft(s))

\* String.prototype.split(","): the pieces between the commas
RECURSIVE SplitComma(_, _)
SplitComma(s, piece) ==
  IF s = <<>> THEN <<piece>>
  ELSE IF Head(s) = "," THEN <<piece>> \o SplitComma(Tail(s), <<>>)
  ELSE SplitComma(Tail(s), Append(piece, Head(s)))

RECURSIVE FilterNonEmpty(_)
FilterNonEmpty(l) ==
  IF l = <<>> THEN <<>>
  ELSE IF Head(l) = <<>> THEN FilterNonEmpty(Tail(l))
  ELSE <<Head(l)>> \o FilterNonEmpty(Tail(l))

DigitValue(c) ==
  CASE c = "0" -> 0 [] c = "1" -> 1 [] c = "2" -> 2 [] c = "3" -> 3 [] c = "4" -> 4
    [] c = "5" -> 5 [] c = "6" -> 6 [] c = "7" -> 7 [] c = "8" -> 8 [] c = "9" -> 9
    [] OTHER -> -1

RECURSIVE LeadingDigits(_, _)
LeadingDigits(s, acc) ==
  IF s = <<>> \/ DigitValue(Head(s)) < 0 THEN acc
  ELSE LeadingDigits(Tail(s), acc * 10 + DigitValue(Head(s)))

\* parseInt(v): the leading signed decimal digits of a string, NaN otherwise
parseInt(v) ==
  IF v.t # "string" THEN NaN
  ELSE LET s == TrimLeft(v.s)
           neg == s # <<>> /\ Head(s) = "-"
           d == IF neg THEN Tail(s) ELSE s
       IN IF d = <<>> \/ DigitValue(Head(d)) < 0 THEN NaN
          ELSE Num((IF neg THEN -1 ELSE 1) * LeadingDigits(d, 0))

\* crypto.randomBytes(length).toString("hex"): 2 * length hex digits; the random
\* content is one of two values
HexDigits == {"a", "b"}

HexString(length, c) == [i \in 1..(2 * length) |-> c]

(***************************************************************************)
(* The process environment: a record of the variables the sources read,    *)
(* each a string or undefined.                                             *)
(***************************************************************************)
EnvNames ==
  {"NODE_ENV", "PORT", "HOST", "SESSION_SECRET", "JWT_SECRET", "CORS_ORIGINS", "DATABASE_URL",
   "EMAIL_API_KEY", "REDIS_URL", "REDIS_PASSWORD", "ENABLE_CONSOLE_LOGGING", "VERCEL",
   "RATE_LIMIT_MAX", "RATE_LIMIT_WINDOW", "ENABLE_LOGGING", "ENABLE_MONITORING"}

(***************************************************************************)
(* environment-config.js: class EnvironmentConfig                          *)
(***************************************************************************)
getBaseConfiguration(env) ==
  Obj([app |-> Obj([name |-> Str(<<"T", "a", "s", "k", " ", "M", "a", "n", "a", "g", "e", "m", "e", "n", "t", " ", "S", "y", "s", "t", "e", "m">>), version |-> Str(<<"1", ".", "0", ".", "0">>)]),
       server |-> Obj([host |-> Str(<<"0", ".", "0", ".", "0", ".", "0">>),
                       port |-> Or(parseInt(env.PORT), Num(3000)),
                       timeout |-> Num(30000)]),
       security |-> Obj([bcryptRounds |-> Num(12),
                         rateLimitWindow |-> Num(15 * 60 * 1000),
                         rateLimitMax |-> Num(100),
                         corsOrigins |-> Arr(<<>>),
                         trustedProxies |-> Num(1)]),
       logging |-> Obj([level |-> Str(<<"i", "n", "f", "o">>), format |-> Str(str_combined),
                        enableConsole |-> Bool(TRUE), enableFile |-> Bool(TRUE)]),
       monitoring |-> Obj([enabled |-> Bool(TRUE), healthCheckPath |-> Str(str_health),
                           metricsPath |-> Str(str_metrics)]),
       performance |-> Obj([compressionEnabled |-> Bool(TRUE), compressionLevel |-> Num(6),
                            cacheMaxAge |-> Num(86400), staticCacheMaxAge |-> Num(31536000),
                            etag |-> Bool(TRUE), lastModified |-> Bool(TRUE)]),
       database |-> Obj([type |-> Str(str_memory), maxConnections |-> Num(10)]),
       redis |-> Obj([enabled |-> Bool(FALSE), host |-> Str(<<"l", "o", "c", "a", "l", "h", "o", "s", "t">>), password |-> Null]),
       email |-> Obj([enabled |-> Bool(FALSE), provider |-> Str(<<"s", "m", "t", "p">>)]),
       storage |-> Obj([type |-> Str(<<"l", "o", "c", "a", "l">>)]),
       features |-> Obj([registration |-> Bool(TRUE), emailVerification |-> Bool(FALSE),
                         fileUpload |-> Bool(FALSE), analytics |-> Bool(FALSE)])])

getDevelopmentConfig ==
  Obj([server |-> Obj([port |-> Num(3000)]),
       security |-> Obj([corsOrigins |-> Arr(<<str_localhost3000, str_localhost8080, str_loopback3000>>),
                         rateLimitMax |-> Num(1000),
                         sessionSecret |-> Str(str_dev_session),
                         jwtSecret |-> Str(str_dev_jwt)]),
       logging |-> Obj([level |-> Str(<<"d", "e", "b", "u", "g">>), format |-> Str(str_dev),
                        enableConsole |-> Bool(TRUE), enableFile |-> Bool(FALSE)]),
       performance |-> Obj([cacheMaxAge |-> Num(0), compressionEnabled |-> Bool(FALSE)]),
       database |-> Obj([type |-> Str(str_memory), logging |-> Bool(TRUE)]),
       features |-> Obj([registration |-> Bool(TRUE), emailVerification |-> Bool(FALSE),
                         analytics |-> Bool(FALSE)]),
       hotReload |-> Bool(TRUE),
       debugMode |-> Bool(TRUE)])

getTestConfig ==
  Obj([server |-> Obj([port |-> Num(0)]),
       security |-> Obj([corsOrigins |-> Arr(<<str_localhost>>),
                         rateLimitMax |-> Num(10000),
                         sessionSecret |-> Str(str_test_session),
                         jwtSecret |-> Str(str_test_jwt),
                         bcryptRounds |-> Num(4)]),
       logging |-> Obj([level |-> Str(<<"e", "r", "r", "o", "r">>), enableConsole |-> Bool(FALSE),
                        enableFile |-> Bool(FALSE)]),
       performance |-> Obj([compressionEnabled |-> Bool(FALSE), cacheMaxAge |-> Num(0)]),
       database |-> Obj([type |-> Str(str_memory), logging |-> Bool(FALSE)]),
       monitoring |-> Obj([enabled |-> Bool(FALSE)]),
       features |-> Obj([registration |-> Bool(TRUE), emailVerification |-> Bool(FALSE),
                         analytics |-> Bool(FALSE)]),
       testTimeout |-> Num(30000)])

\* getEnvArray(envVar, defaultValue)
getEnvArray(env, envVar, defaultValue) ==
  LET value == env[envVar]
  IN IF ~Truthy(value) THEN Arr(defaultValue)
     ELSE LET pieces == SplitComma(value.s, <<>>)
              trimmed == [i \in 1..Len(pieces) |-> Trim(pieces[i])]
          IN Arr(FilterNonEmpty(trimmed))

\* requireEnv(envVar): whether it throws, and what it returns when it does not
requireEnvThrows(env, envVar) ==
  ~Truthy(env[envVar]) /\ env.NODE_ENV = Str(str_production)

requireEnv(env, envVar) == Or(env[envVar], Str(str_not_set))

\* generateSecureSecret(length = 64); digit is the random content
generateSecureSecret(digit) == Str(HexString(64, digit))

\* rnd.session, rnd.jwt: the random content of the two secrets staging may generate
getStagingConfig(env, rnd) ==
  Obj([security |-> Obj([corsOrigins |-> getEnvArray(env, "CORS_ORIGINS", <<str_staging_origin>>),
                         sessionSecret |-> Or(env.SESSION_SECRET, generateSecureSecret(rnd.session)),
                         jwtSecret |-> Or(env.JWT_SECRET, generateSecureSecret(rnd.jwt)),
                         rateLimitMax |-> Num(200)]),
       logging |-> Obj([level |-> Str(<<"i", "n", "f", "o">>), format |-> Str(str_combined),
                        enableFile |-> Bool(TRUE)]),
       performance |-> Obj([compressionEnabled |-> Bool(TRUE), cacheMaxAge |-> Num(3600)]),
       database |-> Obj([type |-> Str(str_postgresql), url |-> env.DATABASE_URL,
                         ssl |-> Bool(FALSE), logging |-> Bool(FALSE)]),
       redis |-> Obj([enabled |-> Bool(Truthy(env.REDIS_URL)), url |-> env.REDIS_URL]),
       email |-> Obj([enabled |-> Bool(TRUE), provider |-> Str(<<"s", "m", "t", "p">>),
                      apiKey |-> env.EMAIL_API_KEY]),
       monitoring |-> Obj([enabled |-> Bool(TRUE), alerting |-> Bool(FALSE)]),
       features |-> Obj([registration |-> Bool(TRUE), emailVerification |-> Bool(TRUE),
                         analytics |-> Bool(TRUE)]),
       debugHeaders |-> Bool(TRUE)])

\* The requireEnv calls of getProductionConfig, in evaluation order.
ProductionRequired == <<"SESSION_SECRET", "JWT_SECRET", "DATABASE_URL", "EMAIL_API_KEY">>

getProductionConfig(env) ==
  Obj([security |-> Obj([corsOrigins |-> getEnvArray(env, "CORS_ORIGINS", <<str_prod_origin>>),
                         sessionSecret |-> requireEnv(env, "SESSION_SECRET"),
                         jwtSecret |-> requireEnv(env, "JWT_SECRET"),
                         rateLimitMax |-> Num(50),
                         trustedProxies |-> Num(1)]),
       logging |-> Obj([level |-> Str(<<"w", "a", "r", "n">>), format |-> Str(str_combined),
                        enableFile |-> Bool(TRUE),
                        enableConsole |-> Bool(env.ENABLE_CONSOLE_LOGGING = Str(<<"t", "r", "u", "e">>))]),
       performance |-> Obj([compressionEnabled |-> Bool(TRUE), compressionLevel |-> Num(9),
                            cacheMaxAge |-> Num(86400)]),
       database |-> Obj([type |-> Str(str_postgresql), url |-> requireEnv(env, "DATABASE_URL"),
                         ssl |-> Bool(TRUE), maxConnections |-> Num(20), logging |-> Bool(FALSE)]),
       redis |-> Obj([enabled |-> Bool(Truthy(env.REDIS_URL)), url |-> env.REDIS_URL,
                      password |-> env.REDIS_PASSWORD, tls |-> Bool(FALSE)]),
       email |-> Obj([enabled |-> Bool(TRUE), provider |-> Str(<<"s", "e", "n", "d", "g", "r", "i", "d">>),
                      apiKey |-> requireEnv(env, "EMAIL_API_KEY")]),
       storage |-> Obj([type |-> Str(<<"s", "3">>)]),
       monitoring |-> Obj([enabled |-> Bool(TRUE), alerting |-> Bool(TRUE)]),
       features |-> Obj([registration |-> Bool(TRUE), emailVerification |-> Bool(TRUE),
                         analytics |-> Bool(TRUE), notifications |-> Bool(TRUE)]),
       gracefulShutdownTimeout |-> Num(30000),
       enableMetrics |-> Bool(TRUE)])

\* The message of the error getProductionConfig throws: the first requireEnv that
\* throws ends the evaluation.  <<>> when none throws.
RequireEnvMessage(envVar) ==
  CASE envVar = "SESSION_SECRET" -> "Required environment variable SESSION_SECRET is not set"
    [] envVar = "JWT_SECRET" -> "Required environment variable JWT_SECRET is not set"
    [] envVar = "DATABASE_URL" -> "Required environment variable DATABASE_URL is not set"
    [] envVar = "EMAIL_API_KEY" -> "Required environment variable EMAIL_API_KEY is not set"

getProductionConfigThrows(env) ==
  LET throwing == {i \in 1..Len(ProductionRequired) : requireEnvThrows(env, ProductionRequired[i])}
  IN IF throwing = {} THEN <<>>
     ELSE LET first == CHOOSE i \in throwing : \A j \in throwing : i <= j
          IN <<RequireEnvMessage(ProductionRequired[first])>>

\* { ...value }: the own enumerable properties of value.  An array and a string
\* have their indices as keys; a number and a boolean have no property.  The
\* elements of an array of the configuration are strings.
Spread(value) ==
  CASE value.t = "object" -> value.m
    [] value.t = "array" -> [key \in {ToString(i - 1) : i \in 1..Len(value.l)} |->
                               Str(value.l[CHOOSE i \in 1..Len(value.l) : ToString(i - 1) = key])]
    [] value.t = "string" -> [key \in {ToString(i - 1) : i \in 1..Len(value.s)} |->
                                Str(<<value.s[CHOOSE i \in 1..Len(value.s) : ToString(i - 1) = key]>>)]
    [] OTHER -> <<>>

\* for (const key in value): the keys the loop visits (none for null)
KeysOf(value) == IF value.t = "object" THEN DOMAIN value.m ELSE {}

\* mergeConfigurations(base, override), lines 372-384
RECURSIVE mergeConfigurations(_, _)
mergeConfigurations(base, override) ==
  LET spread == Spread(base)
  IN Obj([key \in (DOMAIN spread) \cup KeysOf(override) |->
            IF key \in KeysOf(override)
            THEN LET value == override.m[key]
                 IN IF Truthy(value) /\ value.t = "object"
                    THEN mergeConfigurations(Or(Prop(base, key), EmptyObj), value)
                    ELSE value
            ELSE spread[key]])

\* getEnvironmentConfiguration(): configurations[this.environment] || {}.  All four
\* overlays are built first, so getProductionConfig may throw in any environment.
getEnvironmentConfiguration(environment, env, rnd) ==
  CASE environment = Str(str_development) -> getDevelopmentConfig
    [] environment = Str(str_test) -> getTestConfig
    [] environment = Str(str_staging) -> getStagingConfig(env, rnd)
    [] environment = Str(str_production) -> getProductionConfig(env)
    [] OTHER -> EmptyObj

loadConfiguration(environment, env, rnd) ==
  mergeConfigurations(getBaseConfiguration(env), getEnvironmentConfiguration(environment, env, rnd))

\* get(path): path.split(".").reduce((obj, key) => obj?.[key], this.config)
RECURSIVE get(_, _)
get(config, path) == IF path = <<>> THEN config ELSE get(Prop(config, Head(path)), Tail(path))

\* validateConfiguration(): the errors collected; it throws when there is one
validateConfiguration(environment, config) ==
  LET sessionSecret == get(config, <<"security", "sessionSecret">>)
      jwtSecret == get(config, <<"security", "jwtSecret">>)
      corsOrigins == get(config, <<"security", "corsOrigins">>)
      port == get(config, <<"server", "port">>)
      production == environment = Str(str_production)
  IN (IF production /\ (~Truthy(sessionSecret) \/ Includes(sessionSecret.s, str_dev_dash))
      THEN <<"Production requires a secure SESSION_SECRET">> ELSE <<>>)
     \o (IF production /\ (~Truthy(jwtSecret) \/ Includes(jwtSecret.s, str_dev_dash))
         THEN <<"Production requires a secure JWT_SECRET">> ELSE <<>>)
     \o (IF production /\ Len(corsOrigins.l) = 0
         THEN <<"Production requires CORS_ORIGINS to be configured">> ELSE <<>>)
     \o (IF Truthy(port) /\ (port.n < 1 \/ port.n > 65535)
         THEN <<"Invalid port number">> ELSE <<>>)
     \o (IF get(config, <<"database", "type">>) # Str(str_memory)
            /\ ~Truthy(get(config, <<"database", "url">>))
         THEN <<"Database URL is required for non-memory databases">> ELSE <<>>)
     \o (IF Truthy(get(config, <<"email", "enabled">>))
            /\ ~Truthy(get(config, <<"email", "apiKey">>)) /\ production
         THEN <<"Email API key is required when email is enabled in production">> ELSE <<>>)

\* The constructor after loadConfiguration (lines 16-17): validateConfiguration
\* throws when it collected an error.  message is the thrown error's message,
\* line by line.
EnvironmentConfigValidated(this_environment, config, errors) ==
  IF errors # <<>>
  THEN [threw |-> TRUE, message |-> <<"Configuration validation failed:">> \o errors,
        environment |-> this_environment, config |-> config]
  ELSE [threw |-> FALSE, message |-> <<>>, environment |-> this_environment, config |-> config]

EnvironmentConfigLoaded(this_environment, config) ==
  EnvironmentConfigValidated(this_environment, config,
                             validateConfiguration(this_environment, config))

\* required: the message of the error a requireEnv call threw while the overlays
\* were built, <<>> when none did
EnvironmentConfigFor(this_environment, env, rnd, required) ==
  IF required # <<>>
  THEN [threw |-> TRUE, message |-> required, environment |-> this_environment,
        config |-> Undefined]
  ELSE EnvironmentConfigLoaded(this_environment, loadConfiguration(this_environment, env, rnd))

\* new EnvironmentConfig(environment): the object built, or the error thrown
EnvironmentConfig(environment, env, rnd) ==
  EnvironmentConfigFor(Or(environment, Or(env.NODE_ENV, Str(str_development))), env, rnd,
                       getProductionConfigThrows(env))

\* getAll(): { ...this.config }
getAll(config) == config

\* A summary that keeps security.jwtSecret.
getSummaryKeepsJwtSecret(config) ==
  LET DeleteIn(c, domain, key) ==
        IF Truthy(Prop(c, domain)) THEN SetProp(c, domain, DeleteProp(Prop(c, domain), key)) ELSE c
      c1 == DeleteIn(config, "security", "sessionSecret")
      c3 == DeleteIn(c1, "database", "url")
      c4 == DeleteIn(c3, "database", "password")
      c5 == DeleteIn(c4, "redis", "password")
      c6 == DeleteIn(c5, "redis", "url")
  IN DeleteIn(c6, "email", "apiKey")

\* getSummary(): summary = { ...this.config } copies the top level only, so the
\* deletes act on the objects this.config holds.  The summary returned and
\* this.config afterwards have the same content.
getSummary(config) ==
  LET DeleteIn(c, domain, key) ==
        IF Truthy(Prop(c, domain)) THEN SetProp(c, domain, DeleteProp(Prop(c, domain), key)) ELSE c
      c1 == DeleteIn(config, "security", "sessionSecret")
      c2 == DeleteIn(c1, "security", "jwtSecret")
      c3 == DeleteIn(c2, "database", "url")
      c4 == DeleteIn(c3, "database", "password")
      c5 == DeleteIn(c4, "redis", "password")
      c6 == DeleteIn(c5, "redis", "url")
  IN DeleteIn(c6, "email", "apiKey")

\* isFeatureEnabled(feature)
isFeatureEnabled(config, feature) == get(config, <<"features", feature>>) = Bool(TRUE)

(***************************************************************************)
(* security-config.js: class SecurityConfig                                *)
(***************************************************************************)
\* The constructor's option object: each option is  config.x || default , and the
\* trailing  ...config  then copies every own property of the argument over it,
\* an undefined one included.
SecurityOptions(config, rnd) ==
  LET defaults ==
        [rateLimitWindow |-> Or(Prop(config, "rateLimitWindow"), Num(15 * 60 * 1000)),
         rateLimitMax |-> Or(Prop(config, "rateLimitMax"), Num(100)),
         corsOrigins |-> Or(Prop(config, "corsOrigins"), Arr(<<str_localhost3000>>)),
         sessionSecret |-> Or(Prop(config, "sessionSecret"), generateSecureSecret(rnd.session)),
         sessionMaxAge |-> Or(Prop(config, "sessionMaxAge"), Num(24 * 60 * 60 * 1000)),
         maxRequestSize |-> Or(Prop(config, "maxRequestSize"), Str(<<"1", "0", "m", "b">>)),
         maxParameterLimit |-> Or(Prop(config, "maxParameterLimit"), Num(1000)),
         bcryptRounds |-> Or(Prop(config, "bcryptRounds"), Num(12)),
         jwtSecret |-> Or(Prop(config, "jwtSecret"), generateSecureSecret(rnd.jwt)),
         apiKeyLength |-> Or(Prop(config, "apiKeyLength"), Num(32))]
  IN Obj([k \in (DOMAIN defaults) \cup (DOMAIN config.m) |->
            IF k \in DOMAIN config.m THEN config.m[k] ELSE defaults[k]])

\* validateConfig(): the errors collected; it throws when there is one
validateConfig(config) ==
  LET sessionSecret == Prop(config, "sessionSecret")
      jwtSecret == Prop(config, "jwtSecret")
      corsOrigins == Prop(config, "corsOrigins")
      rateLimitMax == Prop(config, "rateLimitMax")
  IN (IF ~Truthy(sessionSecret) \/ Len(sessionSecret.s) < 32
      THEN <<"Session secret must be at least 32 characters long">> ELSE <<>>)
     \o (IF ~Truthy(jwtSecret) \/ Len(jwtSecret.s) < 32
         THEN <<"JWT secret must be at least 32 characters long">> ELSE <<>>)
     \o (IF corsOrigins.t # "array" \/ Len(corsOrigins.l) = 0
         THEN <<"CORS origins must be a non-empty array">> ELSE <<>>)
     \o (IF rateLimitMax.t = "number" /\ rateLimitMax.n < 1
         THEN <<"Rate limit max must be positive">> ELSE <<>>)

\* The constructor after the options are set (line 48): validateConfig throws when
\* it collected an error
SecurityConfigValidated(this_config, errors) ==
  IF errors # <<>>
  THEN [threw |-> TRUE, message |-> <<"Security configuration validation failed:">> \o errors,
        config |-> this_config]
  ELSE [threw |-> FALSE, message |-> <<>>, config |-> this_config]

SecurityConfigWith(this_config) == SecurityConfigValidated(this_config, validateConfig(this_config))

\* new SecurityConfig(config): the object built, or the error thrown
SecurityConfig(config, rnd) == SecurityConfigWith(SecurityOptions(config, rnd))

(***************************************************************************)
(* Bounds of the model.                                                    *)
(***************************************************************************)
\* Requests a process receives.
MaxRequests == 1

\* Requests a limiter handles at the same time.
MaxInFlight == 2

\* Requests that reach a limiter for one key in one window.
MaxChecks == 6

\* The clock advances by TickMs up to MaxClock.
TickMs == 450 * 1000

MaxClock == 2 * TickMs

\* Connections a production entry point accepts.
MaxConnections == 2

\* Calls of shutdown in one run.
MaxTimers == 2

\* The production clock advances by ProductionTickMs; shutdown begins by
\* MaxSignalClock.
ProductionTickMs == 5000

MaxSignalClock == 5000

(***************************************************************************)
(* State.                                                                  *)
(*   env       process.env                                                 *)
(*   variant   the entry point that runs: "server.js",                     *)
(*             "production-server.js" or "production-config.js"            *)
(*   pc        where the entry point's top-level code stands               *)
(*   config    the config object (EnvironmentConfig or the stub in         *)
(*             server.js)                                                  *)
(*   security  server.js: the security object (SecurityConfig or the stub);*)
(*             production entry points: the options of the general limiter *)
(*   console   the lines written to the console                            *)
(*   exitCode  the code given to process.exit, -1 while the process runs   *)
(*   chain     the middleware registered on app, in registration order     *)
(*   server    the listener: "none", "listening", "closing", "closed"      *)
(*   requests  the requests received, each with the stages it went through *)
(*   validated the content of an EnvironmentConfig right after construction*)
(*   result    what the last call of an EnvironmentConfig method returned  *)
(*   clock     the time, in milliseconds                                   *)
(*   timers    the timeouts set, in the order they were set                *)
(*   store     per limiter and key, the count and the window's end         *)
(*   history   per limiter and key, the checks made in the window (ghost)  *)
(***************************************************************************)
VARIABLES env, variant, pc, config, security, console, exitCode, chain, server, requests,
          validated, result, clock, timers, store, history

processVars == <<env, variant, pc, config, security, console, exitCode, chain, server, requests>>

configVars == <<validated, result>>

timeVars == <<clock, timers>>

limiterVars == <<store, history>>

vars == <<processVars, configVars, timeVars, limiterVars>>

(***************************************************************************)
(* server.js, lines 480-524: configuration and security initialisation     *)
(***************************************************************************)
NoObject == [kind |-> "none", environment |-> Undefined, config |-> Undefined]

\* The minimal config and security of the serverless fallback (lines 517-523).
StubConfig == [kind |-> "stubConfig", environment |-> Str(str_vercel_error), config |-> Undefined]

StubSecurity == [kind |-> "stubSecurity", environment |-> Undefined, config |-> Undefined]

\* process.env.VERCEL === undefined
NotServerless(e) == e.VERCEL = Undefined

\* config.get(path) of the config object in use; the stub's get returns undefined
ConfigGet(c, path) == IF c.kind = "EnvironmentConfig" THEN get(c.config, path) ELSE Undefined

\* A catch that never exits: the serverless fallback taken in every deployment.
InitialiseCatchContinues(e, message) ==
  [config |-> StubConfig,
   security |-> StubSecurity,
   console |-> {"Failed to initialize config/security:"} \cup {message[i] : i \in 1..Len(message)},
   exit |-> FALSE]

\* The catch of lines 511-524.
InitialiseCatch(e, message) ==
  [config |-> IF NotServerless(e) THEN NoObject ELSE StubConfig,
   security |-> IF NotServerless(e) THEN NoObject ELSE StubSecurity,
   console |-> {"Failed to initialize config/security:"} \cup {message[i] : i \in 1..Len(message)},
   exit |-> NotServerless(e)]

\* Lines 505-510 and what follows: new SecurityConfig({...}) threw, or did not.
\* c is the config object, logged what the validation logged, s the construction.
InitialiseSecurity(e, c, logged, s) ==
  IF s.threw
  THEN [InitialiseCatch(e, s.message) EXCEPT !.console = @ \cup logged]
  ELSE [config |-> c,
        security |-> [kind |-> "SecurityConfig", environment |-> Undefined, config |-> s.config],
        console |-> logged,
        exit |-> FALSE]

\* The options server.js passes to SecurityConfig (lines 505-510).
ServerSecurityOptions(c) ==
  Obj([corsOrigins |-> ConfigGet(c, <<"security", "corsOrigins">>),
       sessionSecret |-> ConfigGet(c, <<"security", "sessionSecret">>),
       rateLimitWindow |-> ConfigGet(c, <<"security", "rateLimitWindow">>),
       rateLimitMax |-> ConfigGet(c, <<"security", "rateLimitMax">>)])

\* What lines 488-502 log for the errors of config.validateConfiguration().
ValidationLog(errors) ==
  IF errors = <<>> THEN {"Configuration validated"}
  ELSE {"Configuration validation warning:", "Configuration validation failed:"}
       \cup {errors[i] : i \in 1..Len(errors)}

\* Lines 488-510: the second validation, whose failure exits outside the
\* serverless environment, then the security object.
InitialiseValidated(e, rnd, c, errors) ==
  IF errors # <<>> /\ NotServerless(e)
  THEN [config |-> c, security |-> NoObject,
        console |-> ValidationLog(errors)
                    \cup {"Exiting due to validation failure (not in serverless)"},
        exit |-> TRUE]
  ELSE InitialiseSecurity(e, c, ValidationLog(errors),
                          SecurityConfig(ServerSecurityOptions(c), rnd))

\* Line 485 and what follows: new EnvironmentConfig() threw, or built the object.
InitialiseBuilt(e, rnd, built) ==
  IF built.threw THEN InitialiseCatch(e, built.message)
  ELSE InitialiseValidated(e, rnd,
                           [kind |-> "EnvironmentConfig", environment |-> built.environment,
                            config |-> built.config],
                           validateConfiguration(built.environment, built.config))

\* Lines 480-524 as a whole: the objects the process continues with, what it
\* logged, and whether it called process.exit(1).
InitialiseConfigSecurity(e, rnd) == InitialiseBuilt(e, rnd, EnvironmentConfig(Undefined, e, rnd))

(***************************************************************************)
(* server.js, lines 526-693: middleware setup.  The result is the chain    *)
(* registered before the first statement that throws, and that error.      *)
(***************************************************************************)
\* Methods of the objects behind config and security.
HasMethod(object, method) ==
  CASE object.kind = "EnvironmentConfig" ->
         method \in {"get", "set", "isFeatureEnabled", "getAll", "getSummary", "saveToFile"}
    [] object.kind = "SecurityConfig" ->
         method \in {"createRateLimiter", "createStrictRateLimiter", "createCorsConfig",
                     "createInputValidator", "createSecurityHeadersMiddleware",
                     "createRequestLogger", "createErrorHandler"}
    [] object.kind = "stubConfig" -> method \in {"get", "isDevelopment", "getSummary"}
    [] object.kind = "stubSecurity" -> method \in {"getMiddleware"}
    [] OTHER -> FALSE

\* config.isDevelopment(): the stub's returns false, and no other object has it
IsDevelopment(c) == FALSE

ServerRoutes ==
  <<"GET /health", "GET /metrics", "GET /api", "GET /api/tasks", "POST /api/tasks", "GET *",
    "notFound", "errorHandler">>

SetupMiddleware(c, s) ==
  LET compression == IF ConfigGet(c, <<"performance", "compressionEnabled">>) # Bool(FALSE)
                     THEN <<"compression">> ELSE <<>>
      morgan == IF Truthy(ConfigGet(c, <<"logging", "enableConsole">>))
                THEN <<"morgan">> ELSE <<>>
      static == <<"json", "urlencoded", "inputValidator", "static">>
      srcStatic == IF IsDevelopment(c) THEN <<"static /src">> ELSE <<>>
  IN IF ~HasMethod(s, "createSecurityHeadersMiddleware")
     THEN [chain |-> compression,
           threw |-> <<"security.createSecurityHeadersMiddleware is not a function">>]
     ELSE IF ~HasMethod(c, "isDevelopment")
     THEN [chain |-> compression \o <<"securityHeaders", "cors">> \o morgan \o static,
           threw |-> <<"config.isDevelopment is not a function">>]
     ELSE [chain |-> compression \o <<"securityHeaders", "cors">> \o morgan \o static
                     \o srcStatic \o ServerRoutes,
           threw |-> <<>>]

(***************************************************************************)
(* Requests.  A request is received, goes through the chain one middleware *)
(* at a time, and is answered by a middleware, a route or, past the end of *)
(* the chain, by Express's final handler.                                  *)
(***************************************************************************)
IdleRequest ==
  [state |-> "idle", method |-> "GET", path |-> <<>>, origin |-> Undefined, at |-> 0,
   trace |-> <<>>, error |-> FALSE, status |-> 0,
   ip |-> <<>>, agent |-> Undefined, nth |-> 0, counted |-> FALSE, retryAfter |-> 0]

RequestPaths == {str_health, str_api_tasks}

RequestOrigins == {Undefined, Str(str_ok_origin), Str(str_evil_origin)}

\* createCorsConfig().origin: whether the callback allows the origin
CorsAllows(s, origin) ==
  IF ~Truthy(origin) THEN TRUE
  ELSE \E i \in 1..Len(Prop(s.config, "corsOrigins").l) : Prop(s.config, "corsOrigins").l[i] = origin.s

\* Whether route r (a chain entry "METHOD path") matches the request.
RouteMatches(r, req) ==
  CASE r = "GET /health" -> req.method = "GET" /\ req.path = str_health
    [] r = "GET /metrics" -> req.method = "GET" /\ req.path = str_metrics
    [] r = "GET /api" -> req.method = "GET" /\ req.path = <<"/", "a", "p", "i">>
    [] r = "GET /api/tasks" -> req.method = "GET" /\ req.path = str_api_tasks
    [] r = "POST /api/tasks" -> req.method = "POST" /\ req.path = str_api_tasks
    [] r = "GET *" -> req.method = "GET"
    [] OTHER -> FALSE

\* One middleware of server.js acting on a request: the request afterwards.
Respond(req, mw, code) ==
  [req EXCEPT !.state = "responded", !.status = code, !.trace = Append(@, mw)]

PassOn(req, mw) == [req EXCEPT !.at = @ + 1, !.trace = Append(@, mw)]

Skip(req) == [req EXCEPT !.at = @ + 1]

ServerMiddleware(mw, req, s) ==
  IF req.error
  THEN IF mw = "errorHandler" THEN Respond(req, mw, 500) ELSE Skip(req)
  ELSE CASE mw \in {"compression", "securityHeaders", "morgan", "json", "urlencoded",
                    "inputValidator", "static", "static /src"} -> PassOn(req, mw)
         [] mw = "cors" ->
              IF CorsAllows(s, req.origin) THEN PassOn(req, mw)
              ELSE [PassOn(req, mw) EXCEPT !.error = TRUE]
         [] mw = "notFound" -> Respond(req, mw, 404)
         [] mw = "errorHandler" -> Skip(req)
         [] OTHER -> IF RouteMatches(mw, req) THEN Respond(req, mw, IF mw = "POST /api/tasks" THEN 201 ELSE 200)
                     ELSE Skip(req)

\* Express's final handler: 404 when no middleware answered, 500 for an error
\* no error handler took.
FinalHandler(req) == Respond(req, "finalhandler", IF req.error THEN 500 ELSE 404)

(***************************************************************************)
(* The inputs: the process environments the model starts from.             *)
(***************************************************************************)
ShortSecret == Str(HexString(4, "c"))

LongSecret == Str(HexString(32, "c"))

NodeEnvValues ==
  {Undefined, Str(str_development), Str(str_test), Str(str_staging), Str(str_production),
   Str(str_preview)}

SessionSecretValues == {Undefined, Str(str_dev_session), ShortSecret, LongSecret}

JwtSecretValues == {Undefined, ShortSecret, LongSecret}

CorsOriginsValues == {Undefined, Str(<<" ", ",", " ">>), Str(str_ok_origin)}

PortValues == {Undefined, Str(<<"7", "0", "0", "0", "0">>)}

DatabaseUrl == Str(<<"p", "o", "s", "t", "g", "r", "e", "s", ":", "/", "/", "d", "b", "/", "t", "a", "s", "k", "s">>)

EmailApiKey == Str(<<"S", "G", ".", "k", "e", "y">>)

\* Every combination of secrets, origins, database URL, e-mail key and port for the
\* environments whose overlays read them (staging, production); for the others, the
\* secrets and the port alone.
Environments ==
  [NODE_ENV : {Str(str_staging), Str(str_production)}, PORT : PortValues, HOST : {Undefined},
   SESSION_SECRET : SessionSecretValues, JWT_SECRET : JwtSecretValues,
   CORS_ORIGINS : CorsOriginsValues, DATABASE_URL : {Undefined, DatabaseUrl},
   EMAIL_API_KEY : {Undefined, EmailApiKey}, REDIS_URL : {Undefined},
   REDIS_PASSWORD : {Undefined}, ENABLE_CONSOLE_LOGGING : {Undefined},
   VERCEL : {Undefined, Str(<<"1">>)}, RATE_LIMIT_MAX : {Undefined},
   RATE_LIMIT_WINDOW : {Undefined}, ENABLE_LOGGING : {Undefined}, ENABLE_MONITORING : {Undefined}]
  \cup
  [NODE_ENV : NodeEnvValues \ {Str(str_staging), Str(str_production)}, PORT : PortValues,
   HOST : {Undefined}, SESSION_SECRET : {Undefined, LongSecret}, JWT_SECRET : {Undefined, LongSecret},
   CORS_ORIGINS : {Undefined}, DATABASE_URL : {Undefined}, EMAIL_API_KEY : {Undefined},
   REDIS_URL : {Undefined}, REDIS_PASSWORD : {Undefined}, ENABLE_CONSOLE_LOGGING : {Undefined},
   VERCEL : {Undefined, Str(<<"1">>)}, RATE_LIMIT_MAX : {Undefined},
   RATE_LIMIT_WINDOW : {Undefined}, ENABLE_LOGGING : {Undefined}, ENABLE_MONITORING : {Undefined}]

\* The random content of the secrets one construction generates.
Randoms == [session : HexDigits, jwt : HexDigits]

(***************************************************************************)
(* server.js as a process.                                                 *)
(***************************************************************************)
Init ==
  /\ env \in Environments
  /\ variant = "server.js"
  /\ pc = "init"
  /\ config = NoObject
  /\ security = NoObject
  /\ console = {}
  /\ exitCode = -1
  /\ chain = <<>>
  /\ server = "none"
  /\ requests = [i \in 1..MaxRequests |-> IdleRequest]
  /\ validated = Undefined
  /\ result = Undefined
  /\ clock = 0
  /\ timers = <<>>
  /\ store = <<>>
  /\ history = <<>>

\* Lines 480-524.
InitialiseWith(r) ==
  /\ config' = r.config
  /\ security' = r.security
  /\ console' = console \cup r.console
  /\ pc' = IF r.exit THEN "exited" ELSE "middleware"
  /\ exitCode' = IF r.exit THEN 1 ELSE exitCode

Initialise ==
  /\ variant = "server.js"
  /\ pc = "init"
  /\ \E rnd \in Randoms : InitialiseWith(InitialiseConfigSecurity(env, rnd))
  /\ UNCHANGED <<env, variant, chain, server, requests>>
  /\ UNCHANGED <<configVars, timeVars, limiterVars>>

\* Lines 526-693; the catch of lines 688-693 exits outside the serverless
\* environment.
SetupWith(r) ==
  /\ chain' = r.chain
  /\ console' = IF r.threw = <<>> THEN console
                ELSE console \cup {"Failed to setup middleware:", r.threw[1]}
  /\ pc' = IF r.threw # <<>> /\ NotServerless(env) THEN "exited" ELSE "start"
  /\ exitCode' = IF r.threw # <<>> /\ NotServerless(env) THEN 1 ELSE exitCode

Setup ==
  /\ variant = "server.js"
  /\ pc = "middleware"
  /\ SetupWith(SetupMiddleware(config, security))
  /\ UNCHANGED <<env, variant, config, security, server, requests>>
  /\ UNCHANGED <<configVars, timeVars, limiterVars>>

\* Lines 695-779: app.listen outside the serverless environment, then the
\* registration of the signal and error handlers.
Start ==
  /\ variant = "server.js"
  /\ pc = "start"
  /\ server' = IF NotServerless(env) THEN "listening" ELSE server
  /\ console' = console \cup {IF NotServerless(env) THEN "Server running"
                              ELSE "Vercel serverless environment detected"}
  /\ pc' = "running"
  /\ UNCHANGED <<env, variant, config, security, exitCode, chain, requests>>
  /\ UNCHANGED <<configVars, timeVars, limiterVars>>

\* Whether the process takes requests: through its listener, or as the exported
\* app of the serverless environment.
Accepting == pc = "running" /\ (server = "listening" \/ (server = "none" /\ ~NotServerless(env)))

RequestArrive(i) ==
  /\ Accepting
  /\ requests[i].state = "idle"
  /\ \A j \in 1..(i - 1) : requests[j].state # "idle"
  /\ \E path \in RequestPaths, origin \in RequestOrigins :
       requests' = [requests EXCEPT ![i] =
                      [IdleRequest EXCEPT !.state = "pipeline", !.path = path,
                                          !.origin = origin, !.at = 1]]
  /\ UNCHANGED <<env, variant, pc, config, security, console, exitCode, chain, server>>
  /\ UNCHANGED <<configVars, timeVars, limiterVars>>

RequestStep(i) ==
  /\ pc = "running"
  /\ requests[i].state = "pipeline"
  /\ requests' = [requests EXCEPT ![i] =
                    IF requests[i].at > Len(chain) THEN FinalHandler(requests[i])
                    ELSE ServerMiddleware(chain[requests[i].at], requests[i], security)]
  /\ UNCHANGED <<env, variant, pc, config, security, console, exitCode, chain, server>>
  /\ UNCHANGED <<configVars, timeVars, limiterVars>>

\* gracefulShutdown(signal), lines 733-756, for SIGTERM, SIGINT, an uncaught
\* exception and an unhandled rejection (lines 758-779).
GracefulShutdown ==
  /\ variant = "server.js"
  /\ pc = "running"
  /\ server = "none"
  /\ console' = console \cup {"Shutting down (serverless environment)"}
  /\ pc' = "exited"
  /\ exitCode' = 0
  /\ UNCHANGED <<env, variant, config, security, chain, server, requests>>
  /\ UNCHANGED <<configVars, timeVars, limiterVars>>

Next ==
  \/ Initialise
  \/ Setup
  \/ Start
  \/ \E i \in 1..MaxRequests : RequestArrive(i)
  \/ \E i \in 1..MaxRequests : RequestStep(i)
  \/ GracefulShutdown

Spec == Init /\ [][Next]_vars

(***************************************************************************)
(* environment-config.js: an EnvironmentConfig object and the calls of its *)
(* methods (specification SpecConfig).                                     *)
(***************************************************************************)
\* The argument of new EnvironmentConfig(environment).
ConstructorArguments == {Undefined, Str(str_production), Str(str_staging)}

\* The paths read with get(path).
ConfigPaths ==
  {<<"security", "sessionSecret">>, <<"security", "jwtSecret">>, <<"security", "rateLimitMax">>,
   <<"database", "url">>, <<"server", "port">>, <<"features", "registration">>,
   <<"email", "apiKey">>, <<"redis", "url">>, <<"security", "missing", "key">>}

Features == {"registration", "analytics", "notifications"}

\* What the methods of EnvironmentConfig leave alone.
configFrame ==
  <<env, variant, security, console, exitCode, chain, server, requests, timeVars, limiterVars>>

InitConfig ==
  /\ env \in Environments
  /\ variant = "environment-config.js"
  /\ pc = "init"
  /\ config = NoObject
  /\ security = NoObject
  /\ console = {}
  /\ exitCode = -1
  /\ chain = <<>>
  /\ server = "none"
  /\ requests = [i \in 1..MaxRequests |-> IdleRequest]
  /\ validated = Undefined
  /\ result = Undefined
  /\ clock = 0
  /\ timers = <<>>
  /\ store = <<>>
  /\ history = <<>>

\* new EnvironmentConfig(environment), lines 14-18: the object, or the error thrown.
ConstructWith(built) ==
  /\ config' = [kind |-> IF built.threw THEN "threw" ELSE "EnvironmentConfig",
                environment |-> built.environment, config |-> built.config]
  /\ validated' = built.config
  /\ result' = IF built.threw THEN Err(built.message) ELSE Undefined
  /\ pc' = IF built.threw THEN "threw" ELSE "ready"

Construct ==
  /\ variant = "environment-config.js"
  /\ pc = "init"
  /\ \E environment \in ConstructorArguments, rnd \in Randoms :
       ConstructWith(EnvironmentConfig(environment, env, rnd))
  /\ UNCHANGED configFrame

\* get(path), lines 462-464.
Get ==
  /\ variant = "environment-config.js"
  /\ pc = "ready"
  /\ \E path \in ConfigPaths : result' = get(config.config, path)
  /\ UNCHANGED <<pc, config, validated, configFrame>>

\* isFeatureEnabled(feature), lines 483-485.
IsFeatureEnabled ==
  /\ variant = "environment-config.js"
  /\ pc = "ready"
  /\ \E feature \in Features : result' = Bool(isFeatureEnabled(config.config, feature))
  /\ UNCHANGED <<pc, config, validated, configFrame>>

\* getAll(), lines 490-492.
GetAll ==
  /\ variant = "environment-config.js"
  /\ pc = "ready"
  /\ result' = getAll(config.config)
  /\ UNCHANGED <<pc, config, validated, configFrame>>

\* getSummary(), lines 497-521: the summary shares its nested objects with
\* this.config, which loses the deleted keys too.
GetSummary ==
  /\ variant = "environment-config.js"
  /\ pc = "ready"
  /\ result' = getSummary(config.config)
  /\ config' = [config EXCEPT !.config = getSummary(config.config)]
  /\ UNCHANGED <<pc, validated, configFrame>>

\* saveToFile(filePath), lines 543-557: getSummary() runs before the file is
\* written; the write succeeds or fails.
SaveToFile ==
  /\ variant = "environment-config.js"
  /\ pc = "ready"
  /\ \E written \in BOOLEAN : result' = Bool(written)
  /\ config' = [config EXCEPT !.config = getSummary(config.config)]
  /\ UNCHANGED <<pc, validated, configFrame>>

NextConfig ==
  \/ Construct
  \/ Get
  \/ IsFeatureEnabled
  \/ GetAll
  \/ GetSummary
  \/ SaveToFile

SpecConfig == InitConfig /\ [][NextConfig]_vars

(***************************************************************************)
(* Rate limiters: the options the sources give to express-rate-limit, and  *)
(* the fixed-window counter behind them.                                   *)
(***************************************************************************)
\* Math.ceil(a / b), for a >= 0 and b > 0
Ceil(a, b) == (a + b - 1) \div b

\* crypto.createHash('md5').update(text).digest('hex'): a digest, one per text
Md5(text) == <<"md5:">> \o text

\* A createRateLimiter that lets one request more through than max.
createRateLimiterOneMore(s, options) ==
  [windowMs |-> Or(Prop(options, "windowMs"), Prop(s.config, "rateLimitWindow")),
   max |-> Num(Or(Prop(options, "max"), Prop(s.config, "rateLimitMax")).n + 1),
   message |-> Or(Prop(options, "message"),
                  Obj([error |-> Str(<<"Too many requests from this IP, please try again later.">>),
                       retryAfter |-> Num(Ceil(Prop(s.config, "rateLimitWindow").n, 1000))])),
   skip |-> Or(Prop(options, "skip"), Fn("healthOrMetrics")),
   keyGenerator |-> Or(Prop(options, "keyGenerator"), Fn("ipAndAgent")),
   skipSuccessfulRequests |-> FALSE]

\* security-config.js, createRateLimiter(options = {}), lines 130-152.
createRateLimiter(s, options) ==
  [windowMs |-> Or(Prop(options, "windowMs"), Prop(s.config, "rateLimitWindow")),
   max |-> Or(Prop(options, "max"), Prop(s.config, "rateLimitMax")),
   message |-> Or(Prop(options, "message"),
                  Obj([error |-> Str(<<"Too many requests from this IP, please try again later.">>),
                       retryAfter |-> Num(Ceil(Prop(s.config, "rateLimitWindow").n, 1000))])),
   skip |-> Or(Prop(options, "skip"), Fn("healthOrMetrics")),
   keyGenerator |-> Or(Prop(options, "keyGenerator"), Fn("ipAndAgent")),
   skipSuccessfulRequests |-> FALSE]

\* security-config.js, createStrictRateLimiter(), lines 157-166.
createStrictRateLimiter(s) ==
  createRateLimiter(s, Obj([windowMs |-> Num(15 * 60 * 1000),
                            max |-> Num(5),
                            message |-> Obj([error |-> Str(<<"Too many attempts, please try again later.">>),
                                             retryAfter |-> Num(900)])]))

\* production-server.js, the config object of lines 17-27.
ProductionServerConfig(e) ==
  Obj([environment |-> Or(e.NODE_ENV, Str(str_development)),
       port |-> Or(parseInt(e.PORT), Num(3000)),
       host |-> Or(e.HOST, Str(<<"0", ".", "0", ".", "0", ".", "0">>)),
       corsOrigins |-> Arr(SplitComma(Or(e.CORS_ORIGINS, Str(str_localhost3000)).s, <<>>)),
       rateLimitMax |-> Or(parseInt(e.RATE_LIMIT_MAX), Num(100)),
       rateLimitWindow |-> Or(parseInt(e.RATE_LIMIT_WINDOW), Num(15 * 60 * 1000)),
       enableLogging |-> Bool(e.ENABLE_LOGGING # Str(<<"f", "a", "l", "s", "e">>)),
       enableMonitoring |-> Bool(e.ENABLE_MONITORING # Str(<<"f", "a", "l", "s", "e">>))])

\* production-server.js, generalLimiter, lines 81-91; the key is the library's
\* default, the client address.
generalLimiter(e) ==
  [windowMs |-> Prop(ProductionServerConfig(e), "rateLimitWindow"),
   max |-> Prop(ProductionServerConfig(e), "rateLimitMax"),
   message |-> Str(<<"Too many requests from this IP, please try again later.">>),
   skip |-> Fn("healthOrReady"),
   keyGenerator |-> Fn("ip"),
   skipSuccessfulRequests |-> FALSE]

\* production-server.js, authLimiter, lines 94-99.
authLimiter ==
  [windowMs |-> Num(15 * 60 * 1000),
   max |-> Num(5),
   message |-> Str(<<"Too many login attempts, please try again later.">>),
   skip |-> Fn("never"),
   keyGenerator |-> Fn("ip"),
   skipSuccessfulRequests |-> TRUE]

\* The limiters of the sources, by name.
LimiterNames == {"createRateLimiter", "createStrictRateLimiter", "generalLimiter", "authLimiter"}

Limiter(name, s, e) ==
  CASE name = "createRateLimiter" -> createRateLimiter(s, EmptyObj)
    [] name = "createStrictRateLimiter" -> createStrictRateLimiter(s)
    [] name = "generalLimiter" -> generalLimiter(e)
    [] name = "authLimiter" -> authLimiter

\* skip(req): lines 140-143 of security-config.js, lines 86-89 of
\* production-server.js; without the option the library skips nothing.
LimiterSkips(l, req) ==
  CASE l.skip = Fn("healthOrMetrics") -> req.path = str_health \/ req.path = str_metrics
    [] l.skip = Fn("healthOrReady") -> req.path = str_health \/ req.path = str_ready
    [] OTHER -> FALSE

\* keyGenerator(req): lines 144-147 of security-config.js; req.ip by default.
LimiterKey(l, req) ==
  IF l.keyGenerator = Fn("ipAndAgent")
  THEN req.ip \o <<"-">> \o Md5(Or(req.agent, Str(<<>>)).s)
  ELSE req.ip

\* The counter of one key: the requests counted in the window that began at start.
NoEntry == [live |-> FALSE, start |-> 0, count |-> 0]

InWindow(entry, windowMs, now) == entry.live /\ now < entry.start + windowMs

\* The store's increment: a new window begins when the last one has elapsed.
StoreIncrement(entry, windowMs, now) ==
  IF InWindow(entry, windowMs, now) THEN [entry EXCEPT !.count = @ + 1]
  ELSE [live |-> TRUE, start |-> now, count |-> 1]

\* The store's decrement, for a request that is not to count after all.
StoreDecrement(entry) ==
  IF entry.live /\ entry.count > 0 THEN [entry EXCEPT !.count = @ - 1] ELSE entry

\* The retry-after value of a rejection: the one of the message when it has one,
\* else the rest of the window, in seconds.
RetryAfter(l, entry, now) ==
  IF Truthy(Prop(l.message, "retryAfter")) THEN Prop(l.message, "retryAfter").n
  ELSE Ceil(entry.start + l.windowMs.n - now, 1000)

\* The limiter as a middleware: the request and the key's counter afterwards.  A
\* skipped request goes on uncounted; a counted one goes on unless the count is
\* above max, and is answered 429 then.
RateLimited(l, req, entry, now) ==
  [req EXCEPT !.state = "responded", !.status = 429, !.counted = TRUE,
              !.retryAfter = RetryAfter(l, entry, now)]

RateLimit(l, req, entry, now) ==
  IF LimiterSkips(l, req) THEN [req |-> [req EXCEPT !.state = "handling"], entry |-> entry]
  ELSE IF StoreIncrement(entry, l.windowMs.n, now).count > l.max.n
  THEN [req |-> RateLimited(l, req, StoreIncrement(entry, l.windowMs.n, now), now),
        entry |-> StoreIncrement(entry, l.windowMs.n, now)]
  ELSE [req |-> [req EXCEPT !.state = "handling", !.counted = TRUE],
        entry |-> StoreIncrement(entry, l.windowMs.n, now)]

\* The response is finished: with skipSuccessfulRequests a counted request
\* answered below 400 is taken off the counter.
ResponseFinished(l, req, entry) ==
  IF l.skipSuccessfulRequests /\ req.counted /\ req.status < 400 THEN StoreDecrement(entry)
  ELSE entry

(***************************************************************************)
(* A limiter mounted on an app and the requests that reach it              *)
(* (specification SpecLimiter).  variant names the limiter.                *)
(***************************************************************************)
\* The clients: one address, which declares no agent.
Clients == {[ip |-> <<"10.0.0.1">>, agent |-> Undefined]}

\* The keys a limiter may derive for the clients.
LimiterKeys ==
  {LimiterKey([keyGenerator |-> g], c) : g \in {Fn("ipAndAgent"), Fn("ip")}, c \in Clients}

\* The paths of the requests that reach the limiter: authLimiter is mounted on
\* POST /api/auth/login alone (line 252), the others on every path.
LimiterPaths(name) ==
  IF name = "authLimiter" THEN {str_login} ELSE {str_health, str_metrics, str_api_tasks}

\* The status the handler behind the limiter answers with: the login route
\* answers 200 (lines 252-261).
HandlerStatuses(name) == IF name = "authLimiter" THEN {200} ELSE {200, 500}

\* The options a SecurityConfig is built with.
SecurityOptionValues == {EmptyObj, Obj([rateLimitMax |-> Num(2)])}

\* The ghost of one key: the window, the requests that reached the limiter in
\* it, those counted, those let through, and the decrements.
NoHistory == [live |-> FALSE, start |-> 0, reached |-> 0, counted |-> 0, admitted |-> 0, undone |-> 0]

HistoryNow(h, windowMs, now) ==
  IF h.live /\ now < h.start + windowMs THEN h ELSE [NoHistory EXCEPT !.live = TRUE, !.start = now]

\* A process environment with no variable set.
NoEnvironment == [name \in EnvNames |-> Undefined]

\* The limiter mounted: the one entry of the chain.
TheLimiter == chain[1]

limiterFrame == <<env, variant, pc, config, security, console, exitCode, chain, server, configVars>>

InitLimiter ==
  /\ variant \in LimiterNames
  /\ env \in {[NoEnvironment EXCEPT !.RATE_LIMIT_MAX = v] :
                v \in IF variant = "generalLimiter" THEN {Undefined, Str(<<"2">>)} ELSE {Undefined}}
  /\ pc = "running"
  /\ config = NoObject
  /\ \E options \in IF variant = "createRateLimiter" THEN SecurityOptionValues ELSE {EmptyObj} :
       security = [kind |-> "SecurityConfig", environment |-> Undefined,
                   config |-> SecurityConfig(options, [session |-> "a", jwt |-> "b"]).config]
  /\ console = {}
  /\ exitCode = -1
  /\ chain = <<Limiter(variant, security, env)>>
  /\ server = "listening"
  /\ requests = [i \in 1..MaxInFlight |-> IdleRequest]
  /\ validated = Undefined
  /\ result = IdleRequest
  /\ clock = 0
  /\ timers = <<>>
  /\ store = [k \in LimiterKeys |-> NoEntry]
  /\ history = [k \in LimiterKeys |-> NoHistory]

\* The requests that reached the limiter in the windows of all keys.
Reached == LET Sum[K \in SUBSET LimiterKeys] ==
                 IF K = {} THEN 0
                 ELSE LET k == CHOOSE x \in K : TRUE IN history[k].reached + Sum[K \ {k}]
           IN Sum[LimiterKeys]

\* A request reaches the limiter, which lets it through or answers 429.  result
\* keeps the request as the limiter left it; a request let through stays in
\* flight until its handler answers.
LimiterRequestWith(i, key, h, after) ==
  /\ Reached < MaxChecks
  /\ result' = [after.req EXCEPT !.nth = h.reached + 1]
  /\ requests' = [requests EXCEPT ![i] = IF after.req.state = "handling" THEN after.req ELSE @]
  /\ store' = [store EXCEPT ![key] = after.entry]
  /\ history' = [history EXCEPT ![key] =
                   [h EXCEPT !.reached = @ + 1,
                             !.counted = IF after.req.counted THEN @ + 1 ELSE @,
                             !.admitted = IF after.req.state = "handling" THEN @ + 1 ELSE @]]

LimiterRequestFrom(i, req) ==
  LimiterRequestWith(i, LimiterKey(TheLimiter, req),
                     HistoryNow(history[LimiterKey(TheLimiter, req)], TheLimiter.windowMs.n, clock),
                     RateLimit(TheLimiter, req, store[LimiterKey(TheLimiter, req)], clock))

LimiterRequest(i) ==
  /\ variant \in LimiterNames
  /\ requests[i].state = "idle"
  /\ \A j \in 1..(i - 1) : requests[j].state = "handling"
  /\ \E c \in Clients, path \in LimiterPaths(variant) :
       LimiterRequestFrom(i, [IdleRequest EXCEPT !.ip = c.ip, !.agent = c.agent, !.path = path,
                                                 !.method = IF variant = "authLimiter" THEN "POST"
                                                            ELSE "GET"])
  /\ UNCHANGED <<env, variant, pc, config, security, console, exitCode, chain, server, validated,
                 timeVars>>

\* The handler answers a request the limiter let through, and the request is over.
LimiterRespondWith(i, key, req) ==
  /\ requests' = [requests EXCEPT ![i] = IdleRequest]
  /\ store' = [store EXCEPT ![key] = ResponseFinished(TheLimiter, req, store[key])]
  /\ history' = [history EXCEPT ![key] =
                   IF ResponseFinished(TheLimiter, req, store[key]) # store[key]
                   THEN [@ EXCEPT !.undone = @ + 1] ELSE @]

LimiterRespond(i) ==
  /\ variant \in LimiterNames
  /\ requests[i].state = "handling"
  /\ \E status \in HandlerStatuses(variant) :
       LimiterRespondWith(i, LimiterKey(TheLimiter, requests[i]),
                          [requests[i] EXCEPT !.state = "responded", !.status = status])
  /\ UNCHANGED <<limiterFrame, timeVars>>

\* Time passes.
Tick ==
  /\ variant \in LimiterNames
  /\ clock < MaxClock
  /\ clock' = clock + TickMs
  /\ UNCHANGED <<limiterFrame, timers, requests, limiterVars>>

NextLimiter ==
  \/ \E i \in 1..MaxInFlight : LimiterRequest(i)
  \/ \E i \in 1..MaxInFlight : LimiterRespond(i)
  \/ Tick

SpecLimiter == InitLimiter /\ [][NextLimiter]_vars

(***************************************************************************)
(* production-config.js: class ConfigManager.                              *)
(***************************************************************************)
\* mergeConfigs(base, override), lines 101-113.  typeof null is "object": a null
\* of the override is merged as if it were a mapping without keys.
RECURSIVE mergeConfigs(_, _)
mergeConfigs(base, override) ==
  Obj([key \in (DOMAIN Spread(base)) \cup KeysOf(override) |->
         IF key \in KeysOf(override)
         THEN IF override.m[key].t \in {"object", "null"}
              THEN mergeConfigs(Or(Prop(base, key), EmptyObj), override.m[key])
              ELSE override.m[key]
         ELSE Spread(base)[key]])

\* loadConfig(), lines 15-99: the base configuration and the overrides of the
\* environment.  npm_package_version is not set outside npm.
baseConfig(e) ==
  Obj([app |-> Obj([name |-> Str(<<"Task Management System">>), version |-> Str(<<"1.0.0">>),
                    port |-> Or(parseInt(e.PORT), Num(3000)),
                    host |-> Or(e.HOST, Str(<<"localhost">>))]),
       database |-> Obj([type |-> Str(<<"localStorage">>), maxSize |-> Num(10 * 1024 * 1024),
                         backupInterval |-> Num(24 * 60 * 60 * 1000)]),
       security |-> Obj([corsOrigins |-> IF e.CORS_ORIGINS.t = "string"
                                         THEN Arr(SplitComma(e.CORS_ORIGINS.s, <<>>))
                                         ELSE Arr(<<str_localhost3000>>),
                         rateLimitWindow |-> Num(15 * 60 * 1000),
                         rateLimitMax |-> Num(100),
                         sessionSecret |-> Or(e.SESSION_SECRET, Str(str_dev_session)),
                         bcryptRounds |-> Num(12)]),
       logging |-> Obj([level |-> Str(<<"info">>), format |-> Str(str_combined),
                        maxFiles |-> Num(5), maxSize |-> Str(<<"10m">>)]),
       monitoring |-> Obj([enabled |-> Bool(TRUE), healthCheckPath |-> Str(str_health),
                           metricsPath |-> Str(str_metrics)]),
       performance |-> Obj([compressionEnabled |-> Bool(TRUE), cacheMaxAge |-> Num(86400),
                            staticCacheMaxAge |-> Num(31536000)])])

envConfigs(environment, e) ==
  CASE environment = Str(str_development) ->
         Obj([logging |-> Obj([level |-> Str(<<"debug">>), format |-> Str(str_dev)]),
              security |-> Obj([corsOrigins |-> Arr(<<str_localhost3000, str_localhost8080>>),
                                rateLimitMax |-> Num(1000)]),
              performance |-> Obj([cacheMaxAge |-> Num(0)])])
    [] environment = Str(str_test) ->
         Obj([app |-> Obj([port |-> Num(0)]),
              logging |-> Obj([level |-> Str(<<"error">>)]),
              database |-> Obj([type |-> Str(str_memory)]),
              security |-> Obj([rateLimitMax |-> Num(10000)])])
    [] environment = Str(str_production) ->
         Obj([logging |-> Obj([level |-> Str(<<"warn">>), format |-> Str(str_combined)]),
              security |-> Obj([corsOrigins |-> IF e.CORS_ORIGINS.t = "string"
                                                THEN Arr(SplitComma(e.CORS_ORIGINS.s, <<>>))
                                                ELSE Arr(<<>>),
                                rateLimitMax |-> Num(50)]),
              monitoring |-> Obj([enabled |-> Bool(TRUE), alerting |-> Bool(TRUE)])])
    [] OTHER -> EmptyObj

loadConfig(environment, e) == mergeConfigs(baseConfig(e), envConfigs(environment, e))

\* validate(), lines 142-177: the errors it collects; it throws when there is one.
validate(environment, c, e) ==
  (IF environment = Str(str_production)
   THEN (IF ~Truthy(e.SESSION_SECRET) \/ e.SESSION_SECRET = Str(str_dev_session)
         THEN <<"SESSION_SECRET must be set in production">> ELSE <<>>)
        \o (IF Len(get(c, <<"security", "corsOrigins">>).l) = 0
            THEN <<"CORS_ORIGINS must be configured in production">> ELSE <<>>)
   ELSE <<>>)
  \o (IF get(c, <<"app", "port">>).n < 1 \/ get(c, <<"app", "port">>).n > 65535
      THEN <<"Invalid port number">> ELSE <<>>)
  \o (IF get(c, <<"security", "rateLimitMax">>).n < 1
      THEN <<"Rate limit max must be positive">> ELSE <<>>)

\* new ConfigManager(), lines 10-13
ConfigManager(e) ==
  [kind |-> "ConfigManager", environment |-> Or(e.NODE_ENV, Str(str_development)),
   config |-> loadConfig(Or(e.NODE_ENV, Str(str_development)), e)]

(***************************************************************************)
(* production-config.js: class ProductionServer.                           *)
(***************************************************************************)
\* The options of the limiter of setupMiddleware(), lines 229-237: no skip, the
\* library's default key.
ProductionServerLimiter(c) ==
  [windowMs |-> get(c.config, <<"security", "rateLimitWindow">>),
   max |-> get(c.config, <<"security", "rateLimitMax">>),
   message |-> Obj([error |-> Str(<<"Too many requests from this IP, please try again later.">>)]),
   skip |-> Fn("never"),
   keyGenerator |-> Fn("ip"),
   skipSuccessfulRequests |-> FALSE]

\* setupMiddleware(), setupRoutes() and setupErrorHandling(), lines 196-372: what
\* the constructor registers on app, in order.
ProductionServerChain(c) ==
  <<"helmet", "cors origins", "limiter">>
  \o (IF Truthy(get(c.config, <<"performance", "compressionEnabled">>)) THEN <<"compression">> ELSE <<>>)
  \o <<"json", "urlencoded", "static">>
  \o (IF Truthy(get(c.config, <<"logging", "enabled">>)) THEN <<"morgan">> ELSE <<>>)
  \o <<"GET /health">>
  \o (IF Truthy(get(c.config, <<"monitoring", "enabled">>)) THEN <<"GET /metrics">> ELSE <<>>)
  \o <<"GET /api/v1/tasks", "POST /api/v1/tasks", "GET /api", "GET * sendFile", "notFound",
       "errorHandler">>

\* shutdown(exitCode = 0), lines 406-421, with a listener: the timeout it sets.
\* The listener closes; the process exits with exitCode when the listener has
\* closed, 10 seconds later at the latest.
shutdownLate(code, now) == [due |-> now + 30000, set |-> now, code |-> code, forced |-> code]

shutdown(code, now) == [due |-> now + 10000, set |-> now, code |-> code, forced |-> code]

(***************************************************************************)
(* production-server.js.                                                   *)
(***************************************************************************)
\* What lines 34-289 register on app, in order.
ProductionChain(c) ==
  <<"helmet", "cors", "generalLimiter", "compression", "json", "urlencoded", "requestLog",
    "GET /health", "GET /ready">>
  \o (IF Truthy(Prop(c, "enableMonitoring")) THEN <<"GET /metrics">> ELSE <<>>)
  \o <<"static", "POST /api/auth/login", "notFound", "errorHandler">>

\* gracefulShutdown(signal), lines 308-321: the timeout it sets.  The listener
\* closes; the process exits with 0 when the listener has closed, with 1 after 30
\* seconds at the latest.  The signal's name goes to the log alone.
gracefulShutdown(signal, now) == [due |-> now + 30000, set |-> now, code |-> 0, forced |-> 1]

(***************************************************************************)
(* The production entry points as processes (specification SpecProd):      *)
(* production-server.js, and production-config.js run as its example usage *)
(* (lines 525-544).  A connection carries one request; the listener has    *)
(* closed when it accepts no connection and every request is answered.     *)
(***************************************************************************)
\* The origin callback of lines 65-71.
OriginAllowed(c, origin) ==
  IF ~Truthy(origin) THEN TRUE
  ELSE \E i \in 1..Len(Prop(c, "corsOrigins").l) : Prop(c, "corsOrigins").l[i] = origin.s

ProductionRouteMatches(r, req) ==
  CASE r = "GET /health" -> req.method = "GET" /\ req.path = str_health
    [] r = "GET /ready" -> req.method = "GET" /\ req.path = str_ready
    [] r = "GET /metrics" -> req.method = "GET" /\ req.path = str_metrics
    [] r = "POST /api/auth/login" -> req.method = "POST" /\ req.path = str_login
    [] r = "GET /api/v1/tasks" -> req.method = "GET" /\ req.path = str_api_v1_tasks
    [] r = "POST /api/v1/tasks" -> req.method = "POST" /\ req.path = str_api_v1_tasks
    [] r = "GET /api" -> req.method = "GET" /\ req.path = str_api
    [] OTHER -> FALSE

\* One middleware other than a limiter acting on a request.  The handler of
\* GET * calls path.join without production-config.js having required path: it
\* throws, and the error goes to the error handler.
ProductionMiddleware(mw, req, c) ==
  IF req.error
  THEN IF mw = "errorHandler" THEN Respond(req, mw, 500) ELSE Skip(req)
  ELSE CASE mw \in {"helmet", "cors origins", "compression", "json", "urlencoded", "requestLog",
                    "morgan", "static"} -> PassOn(req, mw)
         [] mw = "cors" ->
              IF OriginAllowed(c, req.origin) THEN PassOn(req, mw)
              ELSE [PassOn(req, mw) EXCEPT !.error = TRUE]
         [] mw = "GET * sendFile" ->
              IF req.method = "GET" THEN [PassOn(req, mw) EXCEPT !.error = TRUE] ELSE Skip(req)
         [] mw = "notFound" -> Respond(req, mw, 404)
         [] mw = "errorHandler" -> Skip(req)
         [] OTHER -> IF ProductionRouteMatches(mw, req) THEN Respond(req, mw, 200) ELSE Skip(req)

\* The general limiter acting on a request: after is what RateLimit made of the
\* request and of the counter of its key.
LimiterStage(mw, after) ==
  IF after.req.state = "responded" THEN [after.req EXCEPT !.trace = Append(@, mw)]
  ELSE [after.req EXCEPT !.state = "pipeline", !.at = @ + 1, !.trace = Append(@, mw)]

\* The environments the production entry points start in.
ProductionEnvironments ==
  {[NoEnvironment EXCEPT !.NODE_ENV = n, !.SESSION_SECRET = s, !.CORS_ORIGINS = Str(str_ok_origin)] :
     n \in {Undefined, Str(str_test), Str(str_production)}, s \in {Undefined, LongSecret}}

\* production-server.js reads neither NODE_ENV nor SESSION_SECRET before it listens.
EnvironmentsOf(name) ==
  IF name = "production-server.js"
  THEN {e \in ProductionEnvironments : e.NODE_ENV = Str(str_production) /\ e.SESSION_SECRET = LongSecret}
  ELSE {e \in ProductionEnvironments : e.NODE_ENV = Str(str_production) \/ e.SESSION_SECRET = Undefined}

ProductionPaths == {str_health, str_api_tasks}

ProductionOrigins == {Undefined}

ProductionKeys == {c.ip : c \in Clients}

productionFrame == <<env, variant, config, security, chain, configVars, history>>

InitProd ==
  /\ variant \in {"production-server.js", "production-config.js"}
  /\ env \in EnvironmentsOf(variant)
  /\ pc = "init"
  /\ config = NoObject
  /\ security = NoObject
  /\ console = {}
  /\ exitCode = -1
  /\ chain = <<>>
  /\ server = "none"
  /\ requests = [i \in 1..MaxConnections |-> IdleRequest]
  /\ validated = Undefined
  /\ result = Undefined
  /\ clock = 0
  /\ timers = <<>>
  /\ store = [k \in ProductionKeys |-> NoEntry]
  /\ history = <<>>

\* production-server.js, lines 1-345, run to the end: the app is built, the
\* listener bound, the handlers of the process events registered.
ProductionServerRun ==
  /\ variant = "production-server.js"
  /\ pc = "init"
  /\ config' = [kind |-> "config", environment |-> Prop(ProductionServerConfig(env), "environment"),
                config |-> ProductionServerConfig(env)]
  /\ security' = generalLimiter(env)
  /\ chain' = ProductionChain(ProductionServerConfig(env))
  /\ server' = "listening"
  /\ console' = console \cup {"Server started"}
  /\ pc' = "running"
  /\ UNCHANGED <<env, variant, exitCode, requests, configVars, timeVars, limiterVars>>

\* production-config.js, the example usage of lines 525-544: new ConfigManager(),
\* config.validate(), new ProductionServer(app, config), server.start().  An error
\* thrown by validate() ends the process with code 1.
ExampleUsageWith(c, errors) ==
  /\ config' = c
  /\ security' = IF errors = <<>> THEN ProductionServerLimiter(c) ELSE security
  /\ chain' = IF errors = <<>> THEN ProductionServerChain(c) ELSE chain
  /\ server' = IF errors = <<>> THEN "listening" ELSE server
  /\ console' = console \cup (IF errors = <<>> THEN {"Server running"}
                              ELSE {"Configuration validation failed:"})
  /\ pc' = IF errors = <<>> THEN "running" ELSE "exited"
  /\ exitCode' = IF errors = <<>> THEN exitCode ELSE 1

ExampleUsageOf(c) == ExampleUsageWith(c, validate(c.environment, c.config, env))

ExampleUsage ==
  /\ variant = "production-config.js"
  /\ pc = "init"
  /\ ExampleUsageOf(ConfigManager(env))
  /\ UNCHANGED <<env, variant, requests, configVars, timeVars, limiterVars>>

\* A connection is accepted and its request received; the request is in flight
\* until the app has handled and answered it.
ProductionRequestArrive(i) ==
  /\ pc = "running"
  /\ server = "listening"
  /\ requests[i].state = "idle"
  /\ \A j \in 1..(i - 1) : requests[j].state # "idle"
  /\ \E c \in Clients, path \in ProductionPaths, origin \in ProductionOrigins :
       requests' = [requests EXCEPT ![i] =
                      [IdleRequest EXCEPT !.state = "pipeline", !.path = path, !.origin = origin,
                                          !.ip = c.ip, !.agent = c.agent, !.at = 1]]
  /\ UNCHANGED <<productionFrame, pc, console, exitCode, server, timeVars, store>>

\* The app handles a request: the chain from the request's position on, until a
\* middleware or a route answers.
RECURSIVE ProductionHandle(_, _, _, _, _, _)
RECURSIVE ProductionLimited(_, _, _, _, _)
ProductionHandle(ch, l, c, req, entry, now) ==
  IF req.state = "responded" THEN [req |-> req, entry |-> entry]
  ELSE IF req.at > Len(ch) THEN [req |-> FinalHandler(req), entry |-> entry]
  ELSE IF ch[req.at] \in {"generalLimiter", "limiter"} /\ ~req.error
  THEN ProductionLimited(ch, l, c, RateLimit(l, req, entry, now), now)
  ELSE ProductionHandle(ch, l, c, ProductionMiddleware(ch[req.at], req, c), entry, now)

ProductionLimited(ch, l, c, after, now) ==
  ProductionHandle(ch, l, c, LimiterStage(ch[after.req.at], after), after.entry, now)

\* A request in flight is handled and answered.
ProductionAnswered(i, key, after) ==
  /\ requests' = [requests EXCEPT ![i] = after.req]
  /\ store' = [store EXCEPT ![key] = after.entry]

ProductionRequestHandle(i) ==
  /\ pc = "running"
  /\ requests[i].state = "pipeline"
  /\ ProductionAnswered(i, LimiterKey(security, requests[i]),
                        ProductionHandle(chain, security, config.config, requests[i],
                                         store[LimiterKey(security, requests[i])], clock))
  /\ UNCHANGED <<productionFrame, pc, console, exitCode, server, timeVars>>

\* A call that clears the timeout of the call before it and sets its own.
ShutdownCalledRestarts(timer) ==
  /\ clock <= MaxSignalClock
  /\ Len(timers) < MaxTimers
  /\ server' = "closing"
  /\ timers' = [i \in 1..Len(timers) |-> [timers[i] EXCEPT !.due = timer.due, !.forced = timer.forced]]
                \o <<timer>>
  /\ UNCHANGED <<pc, console, exitCode>>

\* shutdown or gracefulShutdown is called: the listener stops accepting, and a
\* timeout is set.  Nothing cancels a timeout set by an earlier call.
ShutdownCalled(timer) ==
  /\ clock <= MaxSignalClock
  /\ Len(timers) < MaxTimers
  /\ server' = "closing"
  /\ timers' = Append(timers, timer)
  /\ UNCHANGED <<pc, console, exitCode>>

\* SIGTERM or SIGINT: lines 323-324 of production-server.js, lines 369-377 of
\* production-config.js.
TerminationSignal ==
  /\ pc = "running"
  /\ \E signal \in {"SIGTERM", "SIGINT"} :
       ShutdownCalled(IF variant = "production-server.js" THEN gracefulShutdown(signal, clock)
                      ELSE shutdown(0, clock))
  /\ UNCHANGED <<productionFrame, requests, clock, store>>

\* An uncaught exception: production-server.js exits at once (lines 330-336),
\* ProductionServer calls shutdown(1) (lines 380-383).
UncaughtException ==
  /\ pc = "running"
  /\ IF variant = "production-server.js"
     THEN /\ pc' = "exited"
          /\ exitCode' = 1
          /\ console' = console \cup {"Uncaught Exception"}
          /\ UNCHANGED <<server, timers>>
     ELSE ShutdownCalled(shutdown(1, clock))
  /\ UNCHANGED <<productionFrame, requests, clock, store>>

\* An unhandled rejection: production-server.js logs it (lines 338-343),
\* ProductionServer calls shutdown(1) (lines 386-389).
UnhandledRejection ==
  /\ pc = "running"
  /\ IF variant = "production-server.js"
     THEN /\ console' = console \cup {"Unhandled Rejection"}
          /\ UNCHANGED <<pc, exitCode, server, timers>>
     ELSE ShutdownCalled(shutdown(1, clock))
  /\ UNCHANGED <<productionFrame, requests, clock, store>>

\* Whether a request holds its connection open.
InFlight(i) == requests[i].state \notin {"idle", "responded"}

\* The listener has closed: the callback given to the first server.close()
\* exits the process.
ServerClosed ==
  /\ pc = "running"
  /\ server = "closing"
  /\ \A i \in 1..MaxConnections : ~InFlight(i)
  /\ server' = "closed"
  /\ console' = console \cup {"Server closed"}
  /\ pc' = "exited"
  /\ exitCode' = Head(timers).code
  /\ UNCHANGED <<productionFrame, requests, timeVars, store>>

\* The earliest timeout is due: its callback exits the process.
ForceExit ==
  /\ pc = "running"
  /\ timers # <<>>
  /\ Head(timers).due <= clock
  /\ console' = console \cup {"Forced shutdown"}
  /\ pc' = "exited"
  /\ exitCode' = Head(timers).forced
  /\ UNCHANGED <<productionFrame, requests, server, timeVars, store>>

\* Time passes, up to the next timeout; without one, up to MaxSignalClock.
NextDue == IF timers # <<>> THEN Head(timers).due ELSE MaxSignalClock

ProductionTick ==
  /\ pc = "running"
  /\ clock < NextDue
  /\ clock' = IF clock + ProductionTickMs < NextDue THEN clock + ProductionTickMs ELSE NextDue
  /\ UNCHANGED <<productionFrame, pc, console, exitCode, server, requests, timers, store>>

NextProd ==
  \/ ProductionServerRun
  \/ ExampleUsage
  \/ \E i \in 1..MaxConnections : ProductionRequestArrive(i)
  \/ \E i \in 1..MaxConnections : ProductionRequestHandle(i)
  \/ TerminationSignal
  \/ UncaughtException
  \/ UnhandledRejection
  \/ ServerClosed
  \/ ForceExit
  \/ ProductionTick

\* Node runs the callback of a timeout that is due and the callback of a closed
\* listener, and time passes.  No request is bound to be answered.
SpecProd ==
  /\ InitProd
  /\ [][NextProd]_vars
  /\ WF_vars(ProductionTick)
  /\ WF_vars(ForceExit)
  /\ WF_vars(ServerClosed)

(***************************************************************************)
(* security-config.js: sanitizeInput (lines 257-272).  The regular         *)
(* expressions are matched character by character; replace with the g flag *)
(* removes the matches found from left to right, each search starting      *)
(* after the previous match.                                               *)
(***************************************************************************)
UpperCase ==
  <<"A", "B", "C", "D", "E", "F", "G", "H", "I", "J", "K", "L", "M", "N", "O", "P", "Q", "R",
    "S", "T", "U", "V", "W", "X", "Y", "Z">>

LowerCase ==
  <<"a", "b", "c", "d", "e", "f", "g", "h", "i", "j", "k", "l", "m", "n", "o", "p", "q", "r",
    "s", "t", "u", "v", "w", "x", "y", "z">>

\* The character the i flag compares: the lower-case form of c
ToLower(c) ==
  IF \E k \in 1..26 : UpperCase[k] = c
  THEN LowerCase[CHOOSE k \in 1..26 : UpperCase[k] = c]
  ELSE c

\* \w
WordCharacters ==
  {UpperCase[k] : k \in 1..26} \cup {LowerCase[k] : k \in 1..26}
    \cup {"0", "1", "2", "3", "4", "5", "6", "7", "8", "9", "_"}

\* \s (the blank is the one white-space character of the inputs)
SpaceCharacters == {" "}

\* Whether the lower-case literal lit is found at position i of s, case ignored.
LiteralAt(s, i, lit) ==
  /\ i + Len(lit) - 1 <= Len(s)
  /\ \A k \in 1..Len(lit) : ToLower(s[i + k - 1]) = lit[k]

\* The last position of the longest run of characters of class that starts
\* at position i (i - 1 when s[i] is not of the class).
RECURSIVE RunEnd(_, _, _)
RunEnd(s, i, class) ==
  IF i <= Len(s) /\ s[i] \in class THEN RunEnd(s, i + 1, class) ELSE i - 1

str_script_open == <<"<", "s", "c", "r", "i", "p", "t">>
str_script_close == <<"<", "/", "s", "c", "r", "i", "p", "t", ">">>
str_javascript == <<"j", "a", "v", "a", "s", "c", "r", "i", "p", "t", ":">>
str_on == <<"o", "n">>

\* /<script\b[^<]*(?:(?!<\/script>)<[^<]*)*<\/script>/gi at position i: the last
\* position of the match, 0 when there is none.  After "<script" and the word
\* boundary, [^<]* and the group take everything up to the first "</script>".
ScriptBlockEnd(s, i) ==
  IF /\ LiteralAt(s, i, str_script_open)
     /\ (i + 7 > Len(s) \/ s[i + 7] \notin WordCharacters)
     /\ \E j \in (i + 7)..Len(s) : LiteralAt(s, j, str_script_close)
  THEN 8 + CHOOSE j \in (i + 7)..Len(s) :
             /\ LiteralAt(s, j, str_script_close)
             /\ \A k \in (i + 7)..(j - 1) : ~LiteralAt(s, k, str_script_close)
  ELSE 0

\* /javascript:/gi at position i
JavascriptSchemeEnd(s, i) == IF LiteralAt(s, i, str_javascript) THEN i + 10 ELSE 0

\* The "=" of /on\w+\s*=/gi after the word that ends at position w
EventHandlerEquals(s, w) ==
  IF RunEnd(s, w + 1, SpaceCharacters) + 1 <= Len(s)
     /\ s[RunEnd(s, w + 1, SpaceCharacters) + 1] = "="
  THEN RunEnd(s, w + 1, SpaceCharacters) + 1
  ELSE 0

\* /on\w+\s*=/gi at position i
EventHandlerEnd(s, i) ==
  IF LiteralAt(s, i, str_on) /\ RunEnd(s, i + 2, WordCharacters) >= i + 2
  THEN EventHandlerEquals(s, RunEnd(s, i + 2, WordCharacters))
  ELSE 0

MatchEnd(pattern, s, i) ==
  CASE pattern = "script" -> ScriptBlockEnd(s, i)
    [] pattern = "javascript:" -> JavascriptSchemeEnd(s, i)
    [] pattern = "on" -> EventHandlerEnd(s, i)

\* s.replace(pattern, ''), from position i on
RECURSIVE ReplaceFrom(_, _, _)
ReplaceFrom(pattern, s, i) ==
  IF i > Len(s) THEN <<>>
  ELSE IF MatchEnd(pattern, s, i) > 0 THEN ReplaceFrom(pattern, s, MatchEnd(pattern, s, i) + 1)
  ELSE <<s[i]>> \o ReplaceFrom(pattern, s, i + 1)

\* Lines 263-267: the three replacements and the trim of one string
sanitizeString(s) ==
  Trim(ReplaceFrom("on", ReplaceFrom("javascript:", ReplaceFrom("script", s, 1), 1), 1))

\* sanitizeInput(obj), lines 260-271: the value behind obj[key] after the loop
\* body ran for it.  The elements of an array are JavaScript values here.
RECURSIVE sanitizeInputValue(_)
sanitizeInputValue(v) ==
  CASE v.t = "string" -> Str(sanitizeString(v.s))
    [] v.t = "object" -> Obj([k \in DOMAIN v.m |-> sanitizeInputValue(v.m[k])])
    [] v.t = "array" -> Arr([k \in 1..Len(v.l) |-> sanitizeInputValue(v.l[k])])
    [] OTHER -> v

\* sanitizeInput(obj): obj after the call; line 258 leaves what is not an
\* object alone
sanitizeInput(obj) == IF obj.t \in {"object", "array"} THEN sanitizeInputValue(obj) ELSE obj

(***************************************************************************)
(* sanitizeInput called on an object, again and again (specification       *)
(* SpecSanitize).  validated is the object as it was given, result the     *)
(* object as it stands, history what each call left.                       *)
(***************************************************************************)
\* Pieces the strings of the inputs are put together from.
MaxPieces == 3

\* Calls of sanitizeInput on one object.
MaxApplications == 2

SanitizePieces ==
  {<<"j", "a", "v", "a">>, <<"s", "c", "r", "i", "p", "t", ":">>,
   <<"J", "a", "v", "a", "S", "c", "r", "i", "p", "t", ":">>,
   <<"<", "s", "c", "r", "i", "p", "t", ">">>, <<"<", "/", "s", "c", "r", "i", "p", "t", ">">>,
   <<"<", "s", "c", "r">>, <<"i", "p", "t", ">">>,
   <<"a", "l", "e", "r", "t", "(", "1", ")">>, <<"o", "n">>, <<"c", "l", "i", "c", "k">>,
   <<" ", "=">>, <<" ">>}

RECURSIVE Concatenation(_)
Concatenation(pieces) ==
  IF pieces = <<>> THEN <<>> ELSE Head(pieces) \o Concatenation(Tail(pieces))

\* The strings of at most max pieces
SanitizeStrings(max) ==
  UNION {{Concatenation(p) : p \in [1..n -> SanitizePieces]} : n \in 0..max}

\* The values sanitizeInput is given: a string in a mapping, in a list beside
\* scalars, in a mapping inside a mapping, and a string by itself.
SanitizeInputs(max) ==
  UNION {{Obj([title |-> Str(s)]),
          Obj([tags |-> Arr(<<Str(s), Num(1)>>), done |-> Bool(FALSE)]),
          Obj([meta |-> Obj([note |-> Str(s), parent |-> Null])]),
          Str(s)} : s \in SanitizeStrings(max)}

sanitizeFrame ==
  <<env, variant, pc, config, security, console, exitCode, chain, server, requests, validated,
    timeVars, store>>

InitSanitize ==
  /\ env = NoEnvironment
  /\ variant = "sanitizeInput"
  /\ pc = "running"
  /\ config = NoObject
  /\ security = NoObject
  /\ console = {}
  /\ exitCode = -1
  /\ chain = <<>>
  /\ server = "none"
  /\ requests = <<>>
  /\ validated \in SanitizeInputs(MaxPieces)
  /\ result = validated
  /\ clock = 0
  /\ timers = <<>>
  /\ store = <<>>
  /\ history = <<>>

\* security.sanitizeInput(obj): obj is changed in place
SanitizeInput ==
  /\ variant = "sanitizeInput"
  /\ Len(history) < MaxApplications
  /\ result' = sanitizeInput(result)
  /\ history' = Append(history, sanitizeInput(result))
  /\ UNCHANGED sanitizeFrame

NextSanitize == SanitizeInput

SpecSanitize == InitSanitize /\ [][NextSanitize]_vars

(***************************************************************************)
(* security-config.js: createInputValidator (lines 223-252),               *)
(* createCorsConfig (lines 200-218), createErrorHandler (lines 362-406),   *)
(* and the error handlers and origin checks of the entry points.           *)
(***************************************************************************)
\* s.replace(/\D/g, '')
RECURSIVE DigitsOnly(_)
DigitsOnly(s) ==
  IF s = <<>> THEN <<>>
  ELSE (IF DigitValue(Head(s)) >= 0 THEN <<Head(s)>> ELSE <<>>) \o DigitsOnly(Tail(s))

\* a > b for numbers; false when one of them is NaN
Greater(a, b) == a.t = "number" /\ b.t = "number" /\ a.n > b.n

\* Object.keys(v).length
KeyCount(v) ==
  CASE v.t = "object" -> Cardinality(DOMAIN v.m)
    [] v.t = "array" -> Len(v.l)
    [] v.t = "string" -> Len(v.s)
    [] OTHER -> 0

\* Line 227: parseInt(this.config.maxRequestSize.replace(/\D/g, '')) * 1024 * 1024
maxSize(this_config) ==
  IF parseInt(Str(DigitsOnly(Prop(this_config, "maxRequestSize").s))).t = "number"
  THEN Num(parseInt(Str(DigitsOnly(Prop(this_config, "maxRequestSize").s))).n * 1024 * 1024)
  ELSE NaN

\* Line 237
paramCount(req) == Num(KeyCount(req.query) + KeyCount(Or(req.body, EmptyObj)))

\* res.status(code).json(body), said by middleware mw
RespondJson(req, mw, code, body) ==
  [req EXCEPT !.state = "responded", !.status = code, !.response = body,
              !.trace = Append(@, mw)]

\* A validator that sanitizes before it checks the size and the parameter count.
createInputValidatorSanitizesFirst(this_config, req) ==
  IF Greater(parseInt(Or(req.contentLength, Str(<<"0">>))), maxSize(this_config))
  THEN RespondJson([req EXCEPT !.body = sanitizeInput(req.body),
                               !.query = sanitizeInput(req.query)],
                   "inputValidator", 413,
                   Obj([error |-> Str(<<"Request entity too large">>),
                        maxSize |-> Prop(this_config, "maxRequestSize")]))
  ELSE IF Greater(paramCount(req), Prop(this_config, "maxParameterLimit"))
  THEN RespondJson([req EXCEPT !.body = sanitizeInput(req.body),
                               !.query = sanitizeInput(req.query)],
                   "inputValidator", 400,
                   Obj([error |-> Str(<<"Too many parameters">>),
                        maxParameters |-> Prop(this_config, "maxParameterLimit")]))
  ELSE [req EXCEPT !.body = sanitizeInput(req.body), !.query = sanitizeInput(req.query),
                   !.params = sanitizeInput(req.params),
                   !.at = @ + 1, !.trace = Append(@, "inputValidator")]

\* The middleware createInputValidator() returns, lines 224-251.
createInputValidator(this_config, req) ==
  IF Greater(parseInt(Or(req.contentLength, Str(<<"0">>))), maxSize(this_config))
  THEN RespondJson(req, "inputValidator", 413,
                   Obj([error |-> Str(<<"Request entity too large">>),
                        maxSize |-> Prop(this_config, "maxRequestSize")]))
  ELSE IF Greater(paramCount(req), Prop(this_config, "maxParameterLimit"))
  THEN RespondJson(req, "inputValidator", 400,
                   Obj([error |-> Str(<<"Too many parameters">>),
                        maxParameters |-> Prop(this_config, "maxParameterLimit")]))
  ELSE [req EXCEPT !.body = sanitizeInput(req.body), !.query = sanitizeInput(req.query),
                   !.params = sanitizeInput(req.params),
                   !.at = @ + 1, !.trace = Append(@, "inputValidator")]

\* An Error object: its name, message, stack and status properties.
Error(name, message, stack, status) ==
  Obj([name |-> Str(<<name>>), message |-> Str(<<message>>), stack |-> Str(<<stack>>),
       status |-> status])

\* new Error('Not allowed by CORS'), line 211 (production-server.js, line 69)
CorsError ==
  Error("Error", "Not allowed by CORS",
        "Error: Not allowed by CORS at origin (/app/security-config.js:211:30)", Undefined)

\* What express.json() passes to next for a body that is not JSON.
ParseError ==
  Error("SyntaxError", "Unexpected token } in JSON at position 9",
        "SyntaxError: Unexpected token } in JSON at position 9 at parse (/app/node_modules/body-parser/lib/types/json.js:89:19)",
        Num(400))

\* path.join in a module that did not require path (production-config.js, line 300)
PathError ==
  Error("ReferenceError", "path is not defined",
        "ReferenceError: path is not defined at /app/production-config.js:300:26", Undefined)

\* err.status || 500
StatusOf(err) == IF Truthy(Prop(err, "status")) THEN Prop(err, "status").n ELSE 500

\* Lines 398-403 (production-config.js, lines 361-365): the generic response
GenericErrorResponse(err, isDevelopment) ==
  [status |-> StatusOf(err),
   body |-> IF isDevelopment
            THEN Obj([error |-> Or(Prop(err, "name"), Str(<<"Internal Server Error">>)),
                      message |-> Prop(err, "message"), stack |-> Prop(err, "stack")])
            ELSE Obj([error |-> Or(Prop(err, "name"), Str(<<"Internal Server Error">>)),
                      message |-> Str(<<"Something went wrong">>)])]

\* createErrorHandler(), lines 363-405; isDevelopment is line 377.
createErrorHandlerAs(err, isDevelopment) ==
  CASE Prop(err, "name") = Str(<<"ValidationError">>) ->
         [status |-> 400,
          body |-> Obj([error |-> Str(<<"Validation Error">>),
                        message |-> IF isDevelopment THEN Prop(err, "message")
                                    ELSE Str(<<"Invalid input data">>)])]
    [] Prop(err, "name") = Str(<<"UnauthorizedError">>) ->
         [status |-> 401,
          body |-> Obj([error |-> Str(<<"Unauthorized">>),
                        message |-> Str(<<"Authentication required">>)])]
    [] Prop(err, "name") = Str(<<"ForbiddenError">>) ->
         [status |-> 403,
          body |-> Obj([error |-> Str(<<"Forbidden">>), message |-> Str(<<"Access denied">>)])]
    [] OTHER -> GenericErrorResponse(err, isDevelopment)

createErrorHandler(err, e) == createErrorHandlerAs(err, e.NODE_ENV = Str(str_development))

\* production-server.js, lines 277-289 (the timestamp is left out)
ProductionErrorHandler(err, c) ==
  [status |-> StatusOf(err),
   body |-> Obj([success |-> Bool(FALSE),
                 error |-> IF Prop(c, "environment") = Str(str_production)
                           THEN Str(<<"Internal Server Error">>) ELSE Prop(err, "message")])]

\* production-config.js, lines 355-366; isDevelopment() is line 134
ProductionServerErrorHandler(err, c) ==
  GenericErrorResponse(err, c.environment = Str(str_development))

\* api/index.js, lines 140-146 (the timestamp is left out)
ApiErrorHandler(err) ==
  [status |-> StatusOf(err),
   body |-> Obj([error |-> Or(Prop(err, "message"), Str(<<"Internal Server Error">>))])]

(***************************************************************************)
(* The requests with their content, and the middleware chains they go      *)
(* through (specification SpecPipeline).  variant names the app:           *)
(* "server.js" in the serverless environment, "production-server.js",      *)
(* "production-config.js", "api/index.js", and "getAllMiddleware", an app  *)
(* that mounts what SecurityConfig.getAllMiddleware() returns in the order *)
(* server.js mounts its middleware, in front of the task routes.  The app  *)
(* receives one request; the first request of a window passes the limiter. *)
(***************************************************************************)
PipelineVariants ==
  {"server.js", "production-server.js", "production-config.js", "api/index.js", "getAllMiddleware"}

\* api/index.js, lines 20-146
ApiChain ==
  <<"compression", "cors *", "morgan", "json", "urlencoded", "static", "GET /health",
    "GET /metrics", "GET /api", "GET /api/tasks", "POST /api/tasks", "GET * index",
    "errorHandler">>

\* security-config.js, lines 410-422, mounted in the order of server.js
SecurityChain ==
  <<"securityHeaders", "cors", "requestLogger", "json", "urlencoded", "inputValidator",
    "GET /health", "GET /api/tasks", "POST /api/tasks", "notFound", "errorHandler">>

BusinessRoutes ==
  {"GET /api", "GET /api/tasks", "POST /api/tasks", "POST /api/auth/login",
   "GET /api/v1/tasks", "POST /api/v1/tasks"}

\* The origin callback of the app's cors middleware calls back without an error.
OriginCheck(v, c, s, origin) ==
  CASE v \in {"server.js", "getAllMiddleware"} -> CorsAllows(s, origin)
    [] v = "production-server.js" -> OriginAllowed(c.config, origin)
    [] OTHER -> TRUE

\* next(err)
PassError(req, mw, err) ==
  [req EXCEPT !.at = @ + 1, !.trace = Append(@, mw), !.error = TRUE, !.thrown = err]

\* The error handler of the app answers.
ErrorResponse(v, c, e, err) ==
  CASE v = "production-server.js" -> ProductionErrorHandler(err, c.config)
    [] v = "production-config.js" -> ProductionServerErrorHandler(err, c)
    [] v = "api/index.js" -> ApiErrorHandler(err)
    [] OTHER -> createErrorHandler(err, e)

ErrorHandled(req, answer) == RespondJson(req, "errorHandler", answer.status, answer.body)

\* A route's handler answers; what it sends is left out.
RouteStatus(mw) == IF mw = "POST /api/tasks" THEN 201 ELSE 200

\* One middleware acting on a request: the request afterwards.
PipelineMiddleware(mw, req, v, c, s, e) ==
  IF req.error
  THEN IF mw = "errorHandler" THEN ErrorHandled(req, ErrorResponse(v, c, e, req.thrown))
       ELSE Skip(req)
  ELSE CASE mw = "cors" ->
              IF OriginCheck(v, c, s, req.origin) THEN PassOn(req, mw)
              ELSE PassError(req, mw, CorsError)
         [] mw = "json" ->
              IF req.malformed THEN PassError(req, mw, ParseError) ELSE PassOn(req, mw)
         [] mw = "inputValidator" -> createInputValidator(s.config, req)
         [] mw = "GET * sendFile" ->
              IF req.method = "GET" THEN PassError(req, mw, PathError) ELSE Skip(req)
         [] mw = "GET * index" ->
              IF req.method # "GET" THEN Skip(req)
              ELSE IF Len(req.path) >= 4 /\ SubSeq(req.path, 1, 4) = str_api
              THEN RespondJson(req, mw, 404, Obj([error |-> Str(<<"Not Found">>)]))
              ELSE Respond(req, mw, 200)
         [] mw = "notFound" ->
              RespondJson(req, mw, 404, Obj([error |-> Str(<<"Not Found">>)]))
         [] mw = "errorHandler" -> Skip(req)
         [] mw \in {"GET /health", "GET /metrics", "GET /api", "GET /api/tasks",
                    "POST /api/tasks"} ->
              IF RouteMatches(mw, req) THEN Respond(req, mw, RouteStatus(mw)) ELSE Skip(req)
         [] mw \in {"GET /ready", "POST /api/auth/login", "GET /api/v1/tasks",
                    "POST /api/v1/tasks"} ->
              IF ProductionRouteMatches(mw, req) THEN Respond(req, mw, 200) ELSE Skip(req)
         [] OTHER -> PassOn(req, mw)

\* Express's final handler: the status of the error, 404 without one.
PipelineFinalHandler(req) ==
  Respond(req, "finalhandler", IF req.error THEN StatusOf(req.thrown) ELSE 404)

\* The app handles a request: the chain from the request's position on, until a
\* middleware or a route answers.
RECURSIVE PipelineHandle(_, _, _, _, _, _)
PipelineHandle(ch, req, v, c, s, e) ==
  IF req.state = "responded" THEN req
  ELSE IF req.at > Len(ch) THEN PipelineFinalHandler(req)
  ELSE PipelineHandle(ch, PipelineMiddleware(ch[req.at], req, v, c, s, e), v, c, s, e)

\* Keys of the body that exceeds the default parameter limit by one.
ManyParameters == 1001

IdlePipelineRequest ==
  [state |-> "idle", method |-> "GET", path |-> <<>>, origin |-> Undefined, at |-> 0,
   trace |-> <<>>, error |-> FALSE, thrown |-> Undefined, status |-> 0, response |-> Undefined,
   contentLength |-> Undefined, malformed |-> FALSE,
   body |-> Undefined, query |-> EmptyObj, params |-> EmptyObj,
   received |-> [body |-> Undefined, query |-> EmptyObj, params |-> EmptyObj]]

PipelineTargets ==
  {[method |-> "GET", path |-> str_health], [method |-> "GET", path |-> str_api_tasks],
   [method |-> "POST", path |-> str_api_tasks], [method |-> "POST", path |-> str_login],
   [method |-> "POST", path |-> str_api_v1_tasks]}

str_script_alert ==
  <<"<", "s", "c", "r", "i", "p", "t", ">", "a", "l", "e", "r", "t", "(", "1", ")", "<", "/",
    "s", "c", "r", "i", "p", "t", ">">>

str_javascript_alert ==
  <<"j", "a", "v", "a", "s", "c", "r", "i", "p", "t", ":", "a", "l", "e", "r", "t", "(", "1", ")">>

str_alert == <<"a", "l", "e", "r", "t", "(", "1", ")">>

\* What a request carries: the Content-Length header, the parsed body (undefined
\* when no parser took the content type), the query, and whether the body is
\* JSON that does not parse.  A body above 10 MB is of a content type the
\* parsers skip.
PipelineContents ==
  {[contentLength |-> Undefined, body |-> Undefined, query |-> EmptyObj, malformed |-> FALSE],
   [contentLength |-> Str(<<"5", "1", "2">>), body |-> Obj([title |-> Str(str_alert)]),
    query |-> EmptyObj, malformed |-> FALSE],
   [contentLength |-> Str(<<"5", "1", "2">>),
    body |-> Obj([title |-> Str(str_script_alert), done |-> Bool(FALSE)]),
    query |-> Obj([q |-> Str(str_javascript_alert)]), malformed |-> FALSE],
   [contentLength |-> Str(<<"1", "0", "4", "8", "5", "7", "6", "0">>), body |-> Undefined,
    query |-> EmptyObj, malformed |-> FALSE],
   [contentLength |-> Str(<<"1", "0", "4", "8", "5", "7", "6", "1">>), body |-> Undefined,
    query |-> EmptyObj, malformed |-> FALSE],
   [contentLength |-> Str(<<"9", "0", "0", "0">>),
    body |-> Arr([k \in 1..ManyParameters |-> Num(k)]), query |-> EmptyObj,
    malformed |-> FALSE],
   [contentLength |-> Str(<<"5", "1", "2">>), body |-> Undefined, query |-> EmptyObj,
    malformed |-> TRUE]}

PipelineOrigins == {Undefined, Str(str_ok_origin), Str(str_evil_origin)}

\* The environments the apps run in: every secret and origin set, serverless.
PipelineEnvironments ==
  {[NoEnvironment EXCEPT !.NODE_ENV = n, !.VERCEL = Str(<<"1">>), !.SESSION_SECRET = LongSecret,
                         !.JWT_SECRET = LongSecret, !.CORS_ORIGINS = Str(str_ok_origin),
                         !.DATABASE_URL = DatabaseUrl, !.EMAIL_API_KEY = EmailApiKey] :
     n \in {Str(str_development), Str(str_test), Str(str_staging), Str(str_production)}}

\* The options the app of getAllMiddleware gives to new SecurityConfig.
PipelineSecurityOptions ==
  {Obj([corsOrigins |-> Arr(<<str_ok_origin>>)]),
   Obj([corsOrigins |-> Arr(<<str_ok_origin>>), maxParameterLimit |-> Num(2)])}

PipelineRandom == [session |-> "a", jwt |-> "a"]

\* server.js up to the end of the middleware setup (lines 480-693)
ServerSetup(r) ==
  [config |-> r.config, security |-> r.security,
   chain |-> IF r.exit THEN <<>> ELSE SetupMiddleware(r.config, r.security).chain,
   serving |-> ~r.exit]

\* const security = new SecurityConfig(options), and its middleware mounted
SecuritySetup(s) ==
  [config |-> NoObject,
   security |-> [kind |-> "SecurityConfig", environment |-> Undefined, config |-> s.config],
   chain |-> SecurityChain, serving |-> ~s.threw]

\* new ConfigManager(), config.validate(), new ProductionServer(app, config)
ProductionServerSetup(c, e) ==
  [config |-> c, security |-> NoObject, chain |-> ProductionServerChain(c),
   serving |-> validate(c.environment, c.config, e) = <<>>]

\* The app of variant v as it stands when it serves.
PipelineSetup(v, e, options) ==
  CASE v = "server.js" -> ServerSetup(InitialiseConfigSecurity(e, PipelineRandom))
    [] v = "getAllMiddleware" -> SecuritySetup(SecurityConfig(options, PipelineRandom))
    [] v = "production-server.js" ->
         [config |-> [kind |-> "config", environment |-> Prop(ProductionServerConfig(e), "environment"),
                      config |-> ProductionServerConfig(e)],
          security |-> NoObject, chain |-> ProductionChain(ProductionServerConfig(e)),
          serving |-> TRUE]
    [] v = "production-config.js" -> ProductionServerSetup(ConfigManager(e), e)
    [] v = "api/index.js" ->
         [config |-> NoObject, security |-> NoObject, chain |-> ApiChain, serving |-> TRUE]

pipelineFrame ==
  <<env, variant, pc, config, security, console, exitCode, chain, server, configVars, timeVars,
    limiterVars>>

InitPipelineAs(app) ==
  /\ app.serving
  /\ config = app.config
  /\ security = app.security
  /\ chain = app.chain

InitPipeline ==
  /\ variant \in PipelineVariants
  /\ env \in PipelineEnvironments
  /\ \E options \in IF variant = "getAllMiddleware" THEN PipelineSecurityOptions ELSE {EmptyObj} :
       InitPipelineAs(PipelineSetup(variant, env, options))
  /\ pc = "running"
  /\ console = {}
  /\ exitCode = -1
  /\ server = "none"
  /\ requests = <<IdlePipelineRequest>>
  /\ validated = Undefined
  /\ result = Undefined
  /\ clock = 0
  /\ timers = <<>>
  /\ store = <<>>
  /\ history = <<>>

\* The app receives a request.
PipelineRequestArrive ==
  /\ variant \in PipelineVariants
  /\ requests[1].state = "idle"
  /\ \E target \in PipelineTargets, origin \in PipelineOrigins, content \in PipelineContents :
       requests' = <<[IdlePipelineRequest EXCEPT
                        !.state = "pipeline", !.method = target.method, !.path = target.path,
                        !.origin = origin, !.at = 1,
                        !.contentLength = content.contentLength,
                        !.malformed = content.malformed,
                        !.body = content.body, !.query = content.query,
                        !.received = [body |-> content.body, query |-> content.query,
                                      params |-> EmptyObj]]>>
  /\ UNCHANGED pipelineFrame

\* The request is handled and answered.
PipelineRequestHandle ==
  /\ variant \in PipelineVariants
  /\ requests[1].state = "pipeline"
  /\ requests' = <<PipelineHandle(chain, requests[1], variant, config, security, env)>>
  /\ UNCHANGED pipelineFrame

NextPipeline == PipelineRequestArrive \/ PipelineRequestHandle

SpecPipeline == InitPipeline /\ [][NextPipeline]_vars

(***************************************************************************)
(* The deep merges called on a base and an override (specification         *)
(* SpecMerge).  variant names the function; validated holds the two        *)
(* arguments, result what the call returned.                               *)
(***************************************************************************)
MergeFunctions == {"mergeConfigurations", "mergeConfigs"}

MergeKeys == {"port", "origins"}

\* The values of a key: scalars, null, lists, and mappings one and two deep.
MergeValues ==
  {Num(3000), Num(8080), Null, Bool(FALSE), Str(str_dev),
   Arr(<<str_localhost>>), Arr(<<str_ok_origin, str_evil_origin>>),
   EmptyObj, Obj([max |-> Num(100)]), Obj([max |-> Null, window |-> Num(900000)]),
   Obj([max |-> Num(5), list |-> Arr(<<str_ok_origin>>)]),
   Obj([limits |-> Obj([max |-> Num(100)])]), Obj([limits |-> Obj([window |-> Num(60000)])])}

\* The mappings with some of the keys
MergeObjects == UNION {{Obj(m) : m \in [keys -> MergeValues]} : keys \in SUBSET MergeKeys}

mergeFrame ==
  <<env, variant, config, security, console, exitCode, chain, server, requests, validated,
    timeVars, limiterVars>>

InitMerge ==
  /\ env = NoEnvironment
  /\ variant \in MergeFunctions
  /\ pc = "init"
  /\ config = NoObject
  /\ security = NoObject
  /\ console = {}
  /\ exitCode = -1
  /\ chain = <<>>
  /\ server = "none"
  /\ requests = <<>>
  /\ validated \in [base : MergeObjects, override : MergeObjects]
  /\ result = Undefined
  /\ clock = 0
  /\ timers = <<>>
  /\ store = <<>>
  /\ history = <<>>

\* this.mergeConfigurations(base, override), environment-config.js line 27
MergeConfigurations ==
  /\ variant = "mergeConfigurations"
  /\ pc = "init"
  /\ result' = mergeConfigurations(validated.base, validated.override)
  /\ pc' = "ready"
  /\ UNCHANGED mergeFrame

\* this.mergeConfigs(base, override), production-config.js line 98
MergeConfigs ==
  /\ variant = "mergeConfigs"
  /\ pc = "init"
  /\ result' = mergeConfigs(validated.base, validated.override)
  /\ pc' = "ready"
  /\ UNCHANGED mergeFrame

NextMerge == MergeConfigurations \/ MergeConfigs

SpecMerge == InitMerge /\ [][NextMerge]_vars

(***************************************************************************)
(* The constructors called again and again on one process environment      *)
(* (specification SpecResolve).  variant names the class; validated is the *)
(* constructor's argument, result what the last construction built and     *)
(* history what each construction built.                                   *)
(***************************************************************************)
\* The number of constructions.
MaxResolutions == 2

ResolveClasses == {"EnvironmentConfig", "SecurityConfig"}

\* The environment names given to new EnvironmentConfig(environment).
EnvironmentNames == {Str(str_development), Str(str_test), Str(str_staging), Str(str_production)}

\* The arguments of new SecurityConfig(config): none, what server.js passes for a
\* configuration with and without secrets, and explicit options.
ResolveSecurityArguments ==
  {EmptyObj,
   Obj([corsOrigins |-> Arr(<<str_ok_origin>>), sessionSecret |-> Undefined,
        rateLimitWindow |-> Num(900000), rateLimitMax |-> Num(100)]),
   Obj([corsOrigins |-> Arr(<<str_ok_origin>>), sessionSecret |-> LongSecret,
        rateLimitWindow |-> Num(900000), rateLimitMax |-> Num(100)]),
   Obj([sessionSecret |-> LongSecret, jwtSecret |-> Undefined]),
   Obj([sessionSecret |-> LongSecret, jwtSecret |-> LongSecret]),
   Obj([sessionSecret |-> ShortSecret, jwtSecret |-> LongSecret]),
   Obj([corsOrigins |-> Undefined, rateLimitMax |-> Undefined, maxParameterLimit |-> Undefined])}

resolveFrame ==
  <<env, variant, pc, config, security, console, exitCode, chain, server, requests, validated,
    timeVars, store>>

InitResolveAs(class) ==
  /\ variant = class
  /\ IF class = "EnvironmentConfig"
     THEN env \in Environments /\ validated \in EnvironmentNames
     ELSE env = NoEnvironment /\ validated \in ResolveSecurityArguments

InitResolve ==
  /\ \E class \in ResolveClasses : InitResolveAs(class)
  /\ pc = "running"
  /\ config = NoObject
  /\ security = NoObject
  /\ console = {}
  /\ exitCode = -1
  /\ chain = <<>>
  /\ server = "none"
  /\ requests = <<>>
  /\ result = Undefined
  /\ clock = 0
  /\ timers = <<>>
  /\ store = <<>>
  /\ history = <<>>

\* What a construction leaves to its caller: the object's config, or the error thrown.
Resolution(built) == IF built.threw THEN Err(built.message) ELSE built.config

Resolved(built) ==
  /\ result' = Resolution(built)
  /\ history' = Append(history, Resolution(built))

\* new EnvironmentConfig(environment), lines 14-18
ResolveEnvironmentConfig ==
  /\ variant = "EnvironmentConfig"
  /\ Len(history) < MaxResolutions
  /\ \E rnd \in Randoms : Resolved(EnvironmentConfig(validated, env, rnd))
  /\ UNCHANGED resolveFrame

\* new SecurityConfig(config), lines 14-49
ResolveSecurityConfig ==
  /\ variant = "SecurityConfig"
  /\ Len(history) < MaxResolutions
  /\ \E rnd \in Randoms : Resolved(SecurityConfig(validated, rnd))
  /\ UNCHANGED resolveFrame

NextResolve == ResolveEnvironmentConfig \/ ResolveSecurityConfig

SpecResolve == InitResolve /\ [][NextResolve]_vars

(***************************************************************************)
(* Request logging: the logging middleware of production-server.js (lines  *)
(* 120-179) and SecurityConfig.createRequestLogger (lines 332-357), in the *)
(* apps that mount them (specification SpecLog).  history is the log, one  *)
(* entry after the other; a request is answered some time after it was     *)
(* received.                                                               *)
(***************************************************************************)
LogVariants == {"production-server.js", "getAllMiddleware"}

\* The time, in milliseconds, between the logging middleware and the answer.
LogDurations == {5, 1000, 1001}

\* req.ip
LogClientAddress == <<"10.0.0.1">>

\* The middleware mw ran on the request.
Ran(req, mw) == \E k \in 1..Len(req.trace) : req.trace[k] = mw

\* Logger.log(level, message, metadata) of production-server.js, lines 121-138:
\* what it writes.
LoggerLog(c, entry) == IF Truthy(Prop(c, "enableLogging")) THEN <<entry>> ELSE <<>>

\* The logging middleware of production-server.js, lines 157-179: what the
\* listener of "finish" writes.  The listener exists when the middleware ran.
requestLog(c, req, duration) ==
  IF ~Ran(req, "requestLog") THEN <<>>
  ELSE LoggerLog(c, [level |-> "info", message |-> "HTTP Request", method |-> req.method,
                     path |-> req.path, status |-> req.status, duration |-> duration,
                     ip |-> LogClientAddress])
       \o (IF duration > 1000
           THEN LoggerLog(c, [level |-> "warn", message |-> "Slow request detected",
                              method |-> req.method, path |-> req.path, duration |-> duration])
           ELSE <<>>)

\* The calls of res.send behind an answer: res.json and res.status().json call it
\* once, Express's final handler ends the response without it.
SendCalls(req) == IF req.trace # <<>> /\ req.trace[Len(req.trace)] = "finalhandler" THEN 0 ELSE 1

\* createRequestLogger(), lines 332-357: what the replaced res.send writes, once
\* per call.  res.send is replaced when the middleware ran.
createRequestLogger(req, duration) ==
  IF ~Ran(req, "requestLogger") THEN <<>>
  ELSE [k \in 1..SendCalls(req) |->
          [method |-> req.method, url |-> req.path, ip |-> LogClientAddress,
           userAgent |-> Undefined, statusCode |-> req.status, duration |-> duration,
           contentLength |-> 0]]

\* The environments of PipelineEnvironments, with and without ENABLE_LOGGING=false.
LogEnvironments ==
  {[e EXCEPT !.ENABLE_LOGGING = l] :
     e \in PipelineEnvironments, l \in {Undefined, Str(<<"f", "a", "l", "s", "e">>)}}

logFrame ==
  <<env, variant, pc, config, security, console, exitCode, chain, server, configVars, timers,
    store>>

InitLog ==
  /\ variant \in LogVariants
  /\ env \in IF variant = "production-server.js" THEN LogEnvironments ELSE PipelineEnvironments
  /\ \E options \in IF variant = "getAllMiddleware" THEN PipelineSecurityOptions ELSE {EmptyObj} :
       InitPipelineAs(PipelineSetup(variant, env, options))
  /\ pc = "running"
  /\ console = {}
  /\ exitCode = -1
  /\ server = "none"
  /\ requests = <<IdlePipelineRequest>>
  /\ validated = Undefined
  /\ result = Undefined
  /\ clock = 0
  /\ timers = <<>>
  /\ store = <<>>
  /\ history = <<>>

\* The request is handled and answered, duration milliseconds after the logging
\* middleware took the time, and the log is written.
LogAnswered(answered, duration) ==
  /\ requests' = <<answered>>
  /\ clock' = clock + duration
  /\ history' = history \o (IF variant = "production-server.js"
                            THEN requestLog(config.config, answered, duration)
                            ELSE createRequestLogger(answered, duration))

LogRequestHandle ==
  /\ variant \in LogVariants
  /\ requests[1].state = "pipeline"
  /\ \E duration \in LogDurations :
       LogAnswered(PipelineHandle(chain, requests[1], variant, config, security, env), duration)
  /\ UNCHANGED logFrame

NextLog == PipelineRequestArrive \/ LogRequestHandle

SpecLog == InitLog /\ [][NextLog]_vars

(***************************************************************************)
(* Properties of server.js (specification Spec).                           *)
(***************************************************************************)
\* The console lines that name the secret read from envVar.
SecretLines(envVar) ==
  CASE envVar = "SESSION_SECRET" ->
         {RequireEnvMessage("SESSION_SECRET"), "Production requires a secure SESSION_SECRET",
          "Session secret must be at least 32 characters long"}
    [] envVar = "JWT_SECRET" ->
         {RequireEnvMessage("JWT_SECRET"), "Production requires a secure JWT_SECRET",
          "JWT secret must be at least 32 characters long"}

\* The initialisation of lines 480-524 ended in its catch.
InitialisationFailed == "Failed to initialize config/security:" \in console

Production == env.NODE_ENV = Str(str_production)

Served(i) == requests[i].state = "responded"

\* C1: with NODE_ENV=production and SESSION_SECRET unset, startup fails (exit
\* code 1) with an error that names every missing secret, SESSION_SECRET and,
\* when it is unset too, JWT_SECRET, and no listener is ever bound.
C1_StartupFailsNamingMissingSecrets ==
  (Production /\ env.SESSION_SECRET = Undefined /\ pc # "init")
    => /\ pc = "exited" /\ exitCode = 1
       /\ server = "none"
       /\ SecretLines("SESSION_SECRET") \cap console # {}
       /\ env.JWT_SECRET = Undefined => SecretLines("JWT_SECRET") \cap console # {}

StagePosition(names) ==
  LET at == {i \in 1..Len(chain) : chain[i] \in names}
  IN IF at = {} THEN 0 ELSE CHOOSE i \in at : \A j \in at : i <= j

\* C3: the chain a request is served by holds the stages OriginCheck, RateLimit,
\* Sanitize, SecurityHeaders, RequestLog, ErrorNormalize, all of them, in this
\* order, and a request that reached the sanitizer went through the rate
\* limiter first.
C3_FixedStageOrder ==
  \A i \in 1..MaxRequests :
    Served(i) =>
      /\ 0 < StagePosition({"cors"})
      /\ StagePosition({"cors"}) < StagePosition({"rateLimiter"})
      /\ StagePosition({"rateLimiter"}) < StagePosition({"inputValidator"})
      /\ StagePosition({"inputValidator"}) < StagePosition({"securityHeaders"})
      /\ StagePosition({"securityHeaders"}) < StagePosition({"morgan"})
      /\ StagePosition({"morgan"}) < StagePosition({"errorHandler"})
      /\ \A k \in 1..Len(requests[i].trace) :
           requests[i].trace[k] = "inputValidator"
             => \E j \in 1..(k - 1) : requests[i].trace[j] = "rateLimiter"

\* A secret the claim accepts: 32 characters or more, no development placeholder.
StrongSecret(v) == Truthy(v) /\ Len(v.s) >= 32 /\ ~Includes(v.s, str_dev_dash)

\* C9: in production the initialisation goes on to the middleware setup with
\* the EnvironmentConfig object only if security.sessionSecret and
\* security.jwtSecret are both 32 characters or more and hold no placeholder.
C9_StartupOnlyWithStrongSecrets ==
  (Production /\ config.kind = "EnvironmentConfig" /\ pc \in {"middleware", "start", "running"})
    => /\ StrongSecret(ConfigGet(config, <<"security", "sessionSecret">>))
       /\ StrongSecret(ConfigGet(config, <<"security", "jwtSecret">>))


(***************************************************************************)
(* Properties of EnvironmentConfig (specification SpecConfig).             *)
(***************************************************************************)
\* C8: once constructed and validated, the configuration is never mutated:
\* whatever methods were called since, every get(path) returns what it returned
\* right after the validation.
C8_NeverMutated ==
  pc = "ready" => \A path \in ConfigPaths : get(config.config, path) = get(validated, path)

\* The lines of the error the constructor threw.
ThrownLines == IF pc = "threw" THEN {result.l[i] : i \in 1..Len(result.l)} ELSE {}

\* C10: a configuration resolved for "production", however the name was given,
\* fails with an error naming the session secret when SESSION_SECRET is unset,
\* and gets no error about it when SESSION_SECRET is a 64-character random string.
C10_ProductionRequiresSessionSecret ==
  (variant = "environment-config.js" /\ pc # "init" /\ config.environment = Str(str_production))
    => /\ env.SESSION_SECRET = Undefined => SecretLines("SESSION_SECRET") \cap ThrownLines # {}
       /\ env.SESSION_SECRET = LongSecret => SecretLines("SESSION_SECRET") \cap ThrownLines = {}

(***************************************************************************)
(* Properties of the rate limiters (specification SpecLimiter).            *)
(***************************************************************************)
\* A limiter with the strict parameters: a window of 900000 ms, 5 requests.
StrictParameters(l) == l.windowMs = Num(900000) /\ l.max = Num(5)

\* The window of every key began with the first check of the key: a counter
\* that is live runs over the window the checks are numbered in.
WindowFromFirstCheck ==
  \A key \in LimiterKeys : store[key].live => store[key].start = history[key].start

\* C5: with the strict parameters the first 5 checks of a key in a window are
\* allowed, a later check in the same window is rejected with a retry-after
\* above 0, and the first check after the window is allowed again.  result.nth
\* numbers the checks of the key from the first one of its window.
C5_StrictWindowOfFive ==
  (variant \in LimiterNames /\ StrictParameters(TheLimiter) /\ result.state # "idle"
     /\ WindowFromFirstCheck)
    => IF result.nth <= 5 THEN result.state = "handling"
       ELSE result.state = "responded" /\ result.status = 429 /\ result.retryAfter > 0

\* The max the sources configure for each limiter.
ConfiguredMax(name) ==
  CASE name = "createRateLimiter" -> Prop(security.config, "rateLimitMax").n
    [] name = "generalLimiter" -> Or(parseInt(env.RATE_LIMIT_MAX), Num(100)).n
    [] OTHER -> 5

C7_ExemptFromGeneralOnly ==
  (variant \in LimiterNames /\ result.state # "idle")
    => IF variant \in {"createStrictRateLimiter", "authLimiter"} THEN result.counted
       ELSE (result.path \in {str_health, str_metrics} => ~result.counted)

(***************************************************************************)
(* Properties of the production entry points (specification SpecProd).     *)
(***************************************************************************)
\* A termination signal began the shutdown, and the grace runs from that signal:
\* the handlers of SIGTERM and SIGINT alone shut down with code 0.
Signalled == timers # <<>> /\ Head(timers).code = 0

\* Every request received is answered.
Answered == \A i \in DOMAIN requests : ~InFlight(i)

\* The process went on to its exit without an uncaught exception ending it.
ExitedAfterShutdown == pc = "exited" /\ "Uncaught Exception" \notin console

Grace == IF variant = "production-server.js" THEN 30000 ELSE 10000

HexAlphabet ==
  {"0", "1", "2", "3", "4", "5", "6", "7", "8", "9", "a", "b", "c", "d", "e", "f"}

\* A string of at least 64 hex characters.
GeneratedSecret(v) ==
  v.t = "string" /\ Len(v.s) >= 64 /\ \A i \in 1..Len(v.s) : v.s[i] \in HexAlphabet

\* C11: with SESSION_SECRET absent from the process environment, a
\* configuration resolved for production fails with an error naming the
\* variable, and a configuration resolved for any other environment holds a
\* generated session secret of at least 64 hex characters, never a literal.
C11_RequireOrGenerate ==
  (variant = "environment-config.js" /\ pc \in {"ready", "threw"} /\ env.SESSION_SECRET = Undefined)
    => IF config.environment = Str(str_production)
       THEN pc = "threw" /\ SecretLines("SESSION_SECRET") \cap ThrownLines # {}
       ELSE pc = "ready" => GeneratedSecret(get(validated, <<"security", "sessionSecret">>))


\* The process environment names development (or no environment) and sets no
\* secret.
DevelopmentWithoutSecrets ==
  /\ variant = "server.js"
  /\ env.NODE_ENV \in {Undefined, Str(str_development)}
  /\ env.SESSION_SECRET = Undefined
  /\ env.JWT_SECRET = Undefined

\* The lines server.js writes with console.warn (lines 492-500).
WarningLines == {"Configuration validation warning:"}

\* C12: in the development environment with no secrets set, startup succeeds:
\* the process never exits with a failure, once started it has bound its
\* listener, it has logged a warning, and the session secret in use is a
\* generated value of 128 hex characters.
C12_DevelopmentStartsWithGeneratedSecret ==
  DevelopmentWithoutSecrets
    => /\ exitCode # 1
       /\ pc = "running"
            => /\ server = "listening"
               /\ console \cap WarningLines # {}
               /\ GeneratedSecret(ConfigGet(config, <<"security", "sessionSecret">>))
               /\ Len(ConfigGet(config, <<"security", "sessionSecret">>).s) = 128

\* server.js logged the failure of a validation: of config.validateConfiguration(),
\* or of the validateConfig() the SecurityConfig constructor runs.
ValidationErrorLogged ==
  console \cap {"Configuration validation failed:", "Security configuration validation failed:"} # {}

\* C13: in the development and test environments a validation error is only
\* logged: the process does not exit with a failure, and once started it has
\* bound its listener.
C13_ValidationErrorOnlyLogged ==
  (/\ variant = "server.js"
   /\ env.NODE_ENV \in {Undefined, Str(str_development), Str(str_test)}
   /\ ValidationErrorLogged)
    => /\ exitCode # 1
       /\ pc = "running" => server = "listening"

(***************************************************************************)
(* Properties of sanitizeInput (specification SpecSanitize).               *)
(***************************************************************************)
\* C14: sanitizing is idempotent: a second call of sanitizeInput on an object
\* leaves it as the first call left it, whatever mappings, lists, strings and
\* scalars it is made of.
C14_SanitizeIdempotent ==
  (variant = "sanitizeInput" /\ Len(history) >= 2) => history[2] = history[1]

(***************************************************************************)
(* Properties of the request pipeline (specification SpecPipeline).        *)
(***************************************************************************)
\* The request went to the handler of a business route.
ReachedHandler(req) == \E k \in 1..Len(req.trace) : req.trace[k] \in BusinessRoutes

\* The configuration the ceilings are taken from: the SecurityConfig of the app,
\* and the 10mb every app gives its body parsers where there is none.
CeilingConfig(s) ==
  IF s.kind = "SecurityConfig" THEN s.config
  ELSE Obj([maxRequestSize |-> Str(<<"1", "0", "m", "b">>), maxParameterLimit |-> Undefined])

\* The content length or the parameter count of the request as received is
\* above the ceiling.
ExceedsCeiling(req, this_config) ==
  \/ Greater(parseInt(Or(req.contentLength, Str(<<"0">>))), maxSize(this_config))
  \/ Greater(paramCount(req.received), Prop(this_config, "maxParameterLimit"))

\* C15: a request that reaches a business handler has had its body, query and
\* params sanitized in place, and a request whose content length or parameter
\* count is above the ceiling is answered with the size or the parameter-count
\* error (413, 400) without reaching a handler.
C15_SanitizedBeforeHandler ==
  variant \in PipelineVariants
    => \A i \in 1..Len(requests) :
         /\ ReachedHandler(requests[i])
              => /\ requests[i].body = sanitizeInput(requests[i].received.body)
                 /\ requests[i].query = sanitizeInput(requests[i].received.query)
                 /\ requests[i].params = sanitizeInput(requests[i].received.params)
         /\ (/\ requests[i].state = "responded"
             /\ ~requests[i].error
             /\ ExceedsCeiling(requests[i], CeilingConfig(security)))
              => /\ ~ReachedHandler(requests[i])
                 /\ requests[i].status \in {400, 413}

\* The request went through the origin check of the app's cors middleware.
OriginChecked(req) == \E k \in 1..Len(req.trace) : req.trace[k] \in {"cors", "cors *", "cors origins"}

\* security.corsOrigins of the app; api/index.js configures no list.
ConfiguredOrigins(v, c, s) ==
  CASE v \in {"server.js", "getAllMiddleware"} -> Prop(s.config, "corsOrigins").l
    [] v = "production-server.js" -> Prop(c.config, "corsOrigins").l
    [] v = "production-config.js" -> get(c.config, <<"security", "corsOrigins">>).l
    [] OTHER -> <<>>

\* C16: the origin check allows a request exactly when the request carries no
\* origin or its origin is one of security.corsOrigins: a request that went
\* through the check was passed on without the CORS error in these cases, and
\* with it in every other.
C16_OriginAllowedExactlyWhenListed ==
  variant \in PipelineVariants
    => \A i \in 1..Len(requests) :
         OriginChecked(requests[i])
           => (requests[i].thrown # CorsError
                 <=> \/ requests[i].origin = Undefined
                     \/ \E k \in 1..Len(ConfiguredOrigins(variant, config, security)) :
                          ConfiguredOrigins(variant, config, security)[k] = requests[i].origin.s)

\* The error handler of the app answered the request for an error.
AnsweredByErrorHandler(req) ==
  req.state = "responded" /\ req.error /\ req.trace[Len(req.trace)] = "errorHandler"

\* The response carries the message or the stack of the error.
CarriesMessage(req) ==
  req.response.t = "object"
    /\ \E k \in DOMAIN req.response.m : req.response.m[k] = Prop(req.thrown, "message")

CarriesStack(req) ==
  req.response.t = "object"
    /\ \E k \in DOMAIN req.response.m : req.response.m[k] = Prop(req.thrown, "stack")

\* C17: in production no error response carries internal details: what the
\* error handler sends for an error holds neither the message of the error nor
\* its stack (where the file paths are).
C17_NoDetailsInProduction ==
  (variant \in PipelineVariants /\ env.NODE_ENV = Str(str_production))
    => \A i \in 1..Len(requests) :
         AnsweredByErrorHandler(requests[i])
           => ~CarriesMessage(requests[i]) /\ ~CarriesStack(requests[i])

\* C18: outside production (development, test, staging) the response for an
\* unexpected internal error, one the error handler answers with a 5xx status,
\* carries the detail of the error: its message and its stack trace.
C18_DetailsOutsideProduction ==
  (variant \in PipelineVariants /\ env.NODE_ENV # Str(str_production))
    => \A i \in 1..Len(requests) :
         (AnsweredByErrorHandler(requests[i]) /\ requests[i].status >= 500)
           => CarriesMessage(requests[i]) /\ CarriesStack(requests[i])

\* The request was rejected for its origin, its size or its parameter count.
Rejected(req) ==
  /\ req.state = "responded"
  /\ \/ req.thrown = CorsError
     \/ req.trace[Len(req.trace)] = "inputValidator"

\* C19: a request rejected for its origin, its size or its parameter count gets
\* a structured 4xx response: a status from 400 to 499 and a JSON object with an
\* error property; in particular an origin rejection never gets a 5xx status.
C19_RejectionsAreStructured4xx ==
  variant \in PipelineVariants
    => \A i \in 1..Len(requests) :
         Rejected(requests[i])
           => /\ requests[i].status \in 400..499
              /\ requests[i].response.t = "object"
              /\ "error" \in DOMAIN requests[i].response.m

(***************************************************************************)
(* Properties of the deep merges (specification SpecMerge).                *)
(***************************************************************************)
\* merged is the overlay-wins merge of the mappings base and overlay, as far as
\* the keys of base go: a key of both with values that are no mappings has the
\* overlay's value, a key of both with mappings is merged in the same way, and
\* a key of base alone has the base's value.
RECURSIVE OverlayWins(_, _, _)
OverlayWins(base, overlay, merged) ==
  /\ merged.t = "object"
  /\ \A key \in DOMAIN base.m :
       /\ key \in DOMAIN merged.m
       /\ IF key \notin DOMAIN overlay.m THEN merged.m[key] = base.m[key]
          ELSE IF base.m[key].t # "object" /\ overlay.m[key].t # "object"
          THEN merged.m[key] = overlay.m[key]
          ELSE (base.m[key].t = "object" /\ overlay.m[key].t = "object")
                 => OverlayWins(base.m[key], overlay.m[key], merged.m[key])

\* C20: the deep merge is overlay-wins: for a key of base and overlay whose
\* values are scalars or lists the result has the overlay's value (a list is
\* not concatenated), nested mappings are merged recursively, and a key of the
\* base alone keeps its value.
C20_DeepMergeOverlayWins ==
  (variant \in MergeFunctions /\ pc = "ready")
    => OverlayWins(validated.base, validated.override, result)

(***************************************************************************)
(* Properties of the constructors (specification SpecResolve).             *)
(***************************************************************************)
\* C21: configuration resolution is deterministic: for every environment name and
\* every process environment, two constructions of EnvironmentConfig build
\* structurally equal configurations (or throw the same error).
C21_ResolutionDeterministic ==
  (variant = "EnvironmentConfig" /\ Len(history) >= 2) => history[2] = history[1]

(***************************************************************************)
(* Properties of the production origins and of the port (specification     *)
(* SpecConfig).                                                            *)
(***************************************************************************)
\* CORS_ORIGINS is absent, or yields no non-empty entry after splitting, trimming
\* and filtering.
NoExplicitOrigins == getEnvArray(env, "CORS_ORIGINS", <<>>) = Arr(<<>>)

\* An EnvironmentConfig for production was constructed and its overlays were built.
ProductionResolved ==
  /\ variant = "environment-config.js"
  /\ config.kind \in {"EnvironmentConfig", "threw"}
  /\ config.environment = Str(str_production)
  /\ validated # Undefined

\* C22: in production, when CORS_ORIGINS is absent or yields no non-empty entry,
\* the resolved security.corsOrigins is the empty list and the construction is
\* refused with the origin validation error.
C22_ProductionOriginsRequired ==
  (ProductionResolved /\ NoExplicitOrigins)
    => /\ get(validated, <<"security", "corsOrigins">>) = Arr(<<>>)
       /\ "Production requires CORS_ORIGINS to be configured" \in ThrownLines

\* An EnvironmentConfig was constructed and validateConfiguration() ran.
ValidationRan ==
  /\ variant = "environment-config.js"
  /\ config.kind \in {"EnvironmentConfig", "threw"}
  /\ validated # Undefined

ValidPort(port) == port.t = "number" /\ port.n >= 1 /\ port.n <= 65535

\* C23: in every environment, validation reports the invalid-port error exactly
\* when the resolved server.port is not an integer in [1, 65535].
C23_InvalidPortReported ==
  ValidationRan
    => ("Invalid port number" \in ThrownLines <=> ~ValidPort(get(validated, <<"server", "port">>)))

(***************************************************************************)
(* Properties of the shutdown of the production entry points               *)
(* (specification SpecProd).                                               *)
(***************************************************************************)
\* A second termination signal arrived while the shutdown the first one started
\* was in progress.
SecondSignal == Len(timers) >= 2 /\ timers[1].code = 0 /\ timers[2].code = 0

\* C24: a second termination signal during a shutdown neither restarts nor
\* extends the grace period: the process never runs past the grace period counted
\* from the first signal, and it always exits.
C24_SecondSignalKeepsDeadline ==
  /\ [](SecondSignal => clock <= timers[1].set + Grace)
  /\ (SecondSignal ~> pc = "exited")

\* production-server.js was signalled twice, 5 seconds apart, and the timeout of
\* the first signal forced the exit 30 seconds after it.
C24_SecondSignalKeepsDeadline_Witness ==
  /\ variant = "production-server.js"
  /\ SecondSignal
  /\ timers[2].set > timers[1].set
  /\ pc = "exited"
  /\ "Forced shutdown" \in console
  /\ exitCode = 1
  /\ clock = timers[1].set + 30000

\* An uncaught exception or an unhandled rejection happened outside the pipeline:
\* production-server.js logs it, ProductionServer calls shutdown(1).
ErrorOutsidePipeline ==
  \/ "Uncaught Exception" \in console
  \/ "Unhandled Rejection" \in console
  \/ \E k \in 1..Len(timers) : timers[k].code = 1

\* The graceful path: the listener accepts no connection any more, a timeout is
\* set, and the process exits only with every request answered or at the
\* deadline of the earliest timeout.
ShuttingDownGracefully ==
  /\ server \in {"closing", "closed"}
  /\ timers # <<>>
  /\ pc = "exited" => (Answered \/ clock = Head(timers).due)

\* C25: an uncaught exception or unhandled rejection outside the pipeline takes
\* the graceful-shutdown path of a termination signal: the process stops
\* accepting, drains up to the grace period and then exits; it neither exits at
\* once nor continues to run.
C25_ErrorsShutDownGracefully ==
  /\ [](ErrorOutsidePipeline => ShuttingDownGracefully)
  /\ (ErrorOutsidePipeline ~> pc = "exited")

(***************************************************************************)
(* Properties of the request log (specification SpecLog).                  *)
(***************************************************************************)
\* The threshold above which a request is slow, in milliseconds.
SlowThreshold == 1000

\* The entries of the log that describe a request: they carry a status.
RequestEntries ==
  {k \in 1..Len(history) : DOMAIN history[k] \cap {"status", "statusCode"} # {}}

\* The entry carries the method, the path, the client address, the status and
\* the duration of the request.
StructuredEntry(entry, req, duration) ==
  /\ "method" \in DOMAIN entry /\ entry.method = req.method
  /\ \/ "path" \in DOMAIN entry /\ entry.path = req.path
     \/ "url" \in DOMAIN entry /\ entry.url = req.path
  /\ "ip" \in DOMAIN entry /\ entry.ip = LogClientAddress
  /\ \/ "status" \in DOMAIN entry /\ entry.status = req.status
     \/ "statusCode" \in DOMAIN entry /\ entry.statusCode = req.status
  /\ "duration" \in DOMAIN entry /\ entry.duration = duration

\* The log flags a slow request.
SlowFlagged ==
  \E k \in 1..Len(history) :
    "message" \in DOMAIN history[k] /\ history[k].message = "Slow request detected"

\* C26: every completed request has exactly one structured entry in the log, and
\* the log flags it when its duration exceeds the slow-request threshold.
C26_OneEntryPerRequest ==
  (variant \in LogVariants /\ requests[1].state = "responded")
    => /\ Cardinality(RequestEntries) = 1
       /\ \A k \in RequestEntries : StructuredEntry(history[k], requests[1], clock)
       /\ clock > SlowThreshold => SlowFlagged

(***************************************************************************)
(* Properties of the configuration summary (specification SpecConfig).     *)
(***************************************************************************)
SensitivePaths ==
  {<<"security", "sessionSecret">>, <<"security", "jwtSecret">>, <<"database", "url">>,
   <<"database", "password">>, <<"redis", "password">>, <<"redis", "url">>,
   <<"email", "apiKey">>}

\* The object has the key path[1], the object under it the key path[2], and so on.
RECURSIVE Contains(_, _)
Contains(obj, path) ==
  \/ path = <<>>
  \/ obj.t = "object" /\ Head(path) \in DOMAIN obj.m /\ Contains(obj.m[Head(path)], Tail(path))

HidesSecrets(summary) == \A path \in SensitivePaths : ~Contains(summary, path)

\* C27: the summary getSummary() returns, and the one saveToFile() writes, never
\* contains a session secret, a JWT secret, a database URL or password, a redis
\* password or URL, or an e-mail API key, whatever the configuration.
C27_SummaryHidesSecrets ==
  [][/\ GetSummary => HidesSecrets(result')
     /\ SaveToFile => HidesSecrets(config'.config)]_vars

\* getSummary() returned the summary of a configuration that holds both secrets,
\* a database URL and an e-mail API key.
C27_SummaryHidesSecrets_Witness ==
  /\ variant = "environment-config.js"
  /\ pc = "ready"
  /\ \A path \in {<<"security", "sessionSecret">>, <<"security", "jwtSecret">>,
                  <<"database", "url">>, <<"email", "apiKey">>} : Truthy(get(validated, path))
  /\ result = getSummary(validated)
  /\ HidesSecrets(result)

\* The defaults of the options of SecurityConfig that are not generated.
SecurityDefaults ==
  [rateLimitWindow |-> Num(900000), rateLimitMax |-> Num(100),
   corsOrigins |-> Arr(<<str_localhost3000>>), sessionMaxAge |-> Num(86400000),
   maxRequestSize |-> Str(<<"1", "0", "m", "b">>), maxParameterLimit |-> Num(1000),
   bcryptRounds |-> Num(12), apiKeyLength |-> Num(32)]

\* The constructor's argument without the options it gives as undefined.
DefinedOptions(options) ==
  Obj([k \in {key \in DOMAIN options.m : options.m[key] # Undefined} |-> options.m[k]])

\* Every option the argument defines is valid: the construction succeeds when the
\* undefined options are left out.
DefinedOptionsValid == ~SecurityConfig(DefinedOptions(validated), PipelineRandom).threw

\* C28: SecurityConfig falls back to its default for every option that is absent
\* from its argument or undefined in it: the construction does not fail on such
\* an option, the option has its default, and an absent or undefined
\* sessionSecret or jwtSecret is a generated value of 128 hex characters.
C28_UndefinedOptionsFallBack ==
  (variant = "SecurityConfig" /\ history # <<>> /\ DefinedOptionsValid)
    => /\ result.t = "object"
       /\ \A key \in DOMAIN SecurityDefaults :
            Prop(validated, key) = Undefined => Prop(result, key) = SecurityDefaults[key]
       /\ \A key \in {"sessionSecret", "jwtSecret"} :
            Prop(validated, key) = Undefined
              => GeneratedSecret(Prop(result, key)) /\ Len(Prop(result, key).s) = 128

(***************************************************************************)
(* Properties of the exit code of a shutdown (specification SpecProd).     *)
(***************************************************************************)
\* The process exited from a shutdown it started with its listener bound: through
\* the callback of server.close() or through the timeout.
ExitedFromShutdown ==
  pc = "exited" /\ timers # <<>> /\ console \cap {"Server closed", "Forced shutdown"} # {}

\* C29: a graceful shutdown with a bound listener exits with code 0 exactly when
\* the listener finished closing before the timeout fired and with code 1 exactly
\* when the timeout fired first, whatever started the shutdown; and only one of
\* the two exits happens.
C29_ExitCodeTellsHowItEnded ==
  ExitedFromShutdown
    => /\ "Server closed" \in console <=> exitCode = 0
       /\ "Forced shutdown" \in console <=> exitCode = 1

(***************************************************************************)
(* Properties of the input-validation stage (specification SpecPipeline).  *)
(***************************************************************************)
\* The input validator answered the request.
RejectedByValidator(req) ==
  req.state = "responded" /\ req.trace[Len(req.trace)] = "inputValidator"

\* The content length of the request is above the maximal request size.
Oversize(req, this_config) ==
  Greater(parseInt(Or(req.contentLength, Str(<<"0">>))), maxSize(this_config))

\* C30: for every request it acts on, the input-validation stage either answers
\* with a complete rejection (413 for oversize content, 400 for too many
\* parameters), without calling the next stage and with body, query and params as
\* received, or sanitizes body, query and params, sends nothing and calls the next
\* stage once.
C30_RejectsOrSanitizes ==
  variant \in PipelineVariants
    => \A i \in 1..Len(requests) :
         Ran(requests[i], "inputValidator")
           => /\ Cardinality({k \in 1..Len(requests[i].trace) :
                                requests[i].trace[k] = "inputValidator"}) = 1
              /\ IF RejectedByValidator(requests[i])
                 THEN /\ requests[i].status = (IF Oversize(requests[i], security.config)
                                               THEN 413 ELSE 400)
                      /\ Truthy(Prop(requests[i].response, "error"))
                      /\ requests[i].body = requests[i].received.body
                      /\ requests[i].query = requests[i].received.query
                      /\ requests[i].params = requests[i].received.params
                 ELSE /\ ~ExceedsCeiling(requests[i], security.config)
                      /\ requests[i].body = sanitizeInput(requests[i].received.body)
                      /\ requests[i].query = sanitizeInput(requests[i].received.query)
                      /\ requests[i].params = sanitizeInput(requests[i].received.params)
                      /\ requests[i].trace[Len(requests[i].trace)] # "inputValidator"

\* The validator rejected a request of three parameters, one more than the limit
\* allows, and left alone a body that the sanitizer would have changed.
C30_RejectsOrSanitizes_Witness ==
  /\ variant = "getAllMiddleware"
  /\ RejectedByValidator(requests[1])
  /\ requests[1].status = 400
  /\ requests[1].body = requests[1].received.body
  /\ sanitizeInput(requests[1].body) # requests[1].body

\* The validator passed a request on with its body and its query sanitized.
C30_Sanitized ==
  /\ variant \in PipelineVariants
  /\ Ran(requests[1], "inputValidator")
  /\ ~RejectedByValidator(requests[1])
  /\ requests[1].body # requests[1].received.body
  /\ requests[1].query # requests[1].received.query
====
